---------------------------- MODULE Spec2Model ----------------------------
(***************************************************************************)
(* A model of the procurement document pipeline: document classification,  *)
(* SOW/PWS extraction, evaluation-factor extraction (analysis/doc_parser)  *)
(* and the analysis dispatch of the collectors (pipeline/...).             *)
(*                                                                         *)
(* Texts and file names are TLA+ strings; TLC evaluates Len, \o and SubSeq *)
(* on strings, so the substring and pattern tests of the code are modelled *)
(* character by character.  The alphabet is ASCII.                         *)
(***************************************************************************)
EXTENDS Integers, Sequences, FiniteSets, TLC

VARIABLES
    pc,         \* position of the run: which call comes next
    filename,   \* the file name of the document in hand
    text,       \* the normalised text of the document in hand
    label,      \* classify_document's result ("" before the call)
    relabel,    \* the result of a second classify_document call, same arguments
    token,      \* the factor number as written in the first factor header
    cats,       \* _extract_labor_categories' result
    analysis,   \* build_sow_analysis' result
    factors,    \* extract_evaluation_factors' result
    reanalysis, \* the result of a second build_sow_analysis call, same arguments
    refactors,  \* the result of a second extract_evaluation_factors call
    database,   \* the database: tables and connection state
    clock,      \* the clock datetime.now() reads
    run,        \* the record of the latest handler run of the pipeline
    request     \* the API request in progress: what _request_with_retry has done

vars == <<pc, filename, text, label, relabel, token, cats, analysis, factors,
          reanalysis, refactors, database, clock, run, request>>

-----------------------------------------------------------------------------
(* Strings *)

UpperAlpha == "ABCDEFGHIJKLMNOPQRSTUVWXYZ"
LowerAlpha == "abcdefghijklmnopqrstuvwxyz"
Digits == "0123456789"

Char(s, i) == SubSeq(s, i, i)

\* s[from:] of Python, from counted from 1
Drop(s, from) == SubSeq(s, from, Len(s))

\* s[:n] of Python
Take(s, n) == IF Len(s) <= n THEN s ELSE SubSeq(s, 1, n)

\* the one-character strings of an alphabet
CharsOf(alphabet) == {Char(alphabet, k) : k \in 1..Len(alphabet)}

UpperSet == CharsOf(UpperAlpha)
LowerSet == CharsOf(LowerAlpha)
DigitSet == CharsOf(Digits)

IsUpper(c) == c \in UpperSet
IsLower(c) == c \in LowerSet
IsAlpha(c) == IsUpper(c) \/ IsLower(c)
IsDigit(c) == c \in DigitSet

ToLower == [c \in UpperSet |-> Char(LowerAlpha, CHOOSE k \in 1..26 : Char(UpperAlpha, k) = c)]
ToUpper == [c \in LowerSet |-> Char(UpperAlpha, CHOOSE k \in 1..26 : Char(LowerAlpha, k) = c)]

LowerChar(c) == IF IsUpper(c) THEN ToLower[c] ELSE c
UpperChar(c) == IF IsLower(c) THEN ToUpper[c] ELSE c

RECURSIVE LowerStr(_)
\* str.lower()
LowerStr(s) ==
    IF Len(s) = 0 THEN ""
    ELSE IF Len(s) = 1 THEN LowerChar(s)
    ELSE LET h == Len(s) \div 2
         IN  LowerStr(SubSeq(s, 1, h)) \o LowerStr(SubSeq(s, h + 1, Len(s)))

RECURSIVE UpperStr(_)
\* str.upper()
UpperStr(s) ==
    IF Len(s) = 0 THEN ""
    ELSE IF Len(s) = 1 THEN UpperChar(s)
    ELSE LET h == Len(s) \div 2
         IN  UpperStr(SubSeq(s, 1, h)) \o UpperStr(SubSeq(s, h + 1, Len(s)))

\* p occurs in s at position i
At(s, i, p) == i >= 1 /\ i + Len(p) - 1 <= Len(s) /\ SubSeq(s, i, i + Len(p) - 1) = p

\* `p in s' of Python
Contains(s, p) ==
    LET n == Len(p) IN \E i \in 1..(Len(s) - n + 1) : SubSeq(s, i, i + n - 1) = p

\* \s of the regular expressions and str.strip(), over the model's alphabet
WsSet == {" ", "\n", "\t"}
IsWs(c) == c \in WsSet

\* \w of the regular expressions
WordSet == UpperSet \cup LowerSet \cup DigitSet \cup {"_"}
IsWord(c) == c \in WordSet

\* the character of s at i, "" outside s
CharAt(s, i) == IF i >= 1 /\ i <= Len(s) THEN Char(s, i) ELSE ""

RECURSIVE SkipSet(_, _, _)
\* the first position >= i of s whose character is not in S (Len(s) + 1 if none)
SkipSet(s, i, S) ==
    IF i <= Len(s) /\ Char(s, i) \in S THEN SkipSet(s, i + 1, S) ELSE i

RECURSIVE SkipSetBack(_, _, _)
\* the last position <= i of s whose character is not in S (0 if none)
SkipSetBack(s, i, S) ==
    IF i >= 1 /\ Char(s, i) \in S THEN SkipSetBack(s, i - 1, S) ELSE i

SkipWs(s, i) == SkipSet(s, i, WsSet)
SkipDigits(s, i) == SkipSet(s, i, DigitSet)

\* str.lstrip(chars), str.strip()
LStripSet(s, S) == Drop(s, SkipSet(s, 1, S))
RStripSet(s, S) == SubSeq(s, 1, SkipSetBack(s, Len(s), S))
Strip(s) == RStripSet(LStripSet(s, WsSet), WsSet)

\* p occurs in s at position i, letter case ignored (p is given in lower case)
AtCI(s, i, p) ==
    i >= 1 /\ i + Len(p) - 1 <= Len(s) /\ LowerStr(SubSeq(s, i, i + Len(p) - 1)) = p

StartsWith(s, p) == At(s, 1, p)
EndsWith(s, p) == At(s, Len(s) - Len(p) + 1, p)

\* the positions of s at which p occurs
Occurrences(s, p) == {i \in 1..(Len(s) - Len(p) + 1) : At(s, i, p)}

\* the least element of a non-empty set of integers
Min(S) == CHOOSE x \in S : \A y \in S : x <= y

\* the least element of a set of integers, d when the set is empty
MinOr(S, d) == IF S = {} THEN d ELSE Min(S)

\* the position of the first occurrence of p in s at or after i, 0 if none
Find(s, p, i) == MinOr({k \in i..(Len(s) - Len(p) + 1) : At(s, k, p)}, 0)

RECURSIVE Split(_, _)
\* str.split(sep) for a one-character separator
Split(s, sep) ==
    LET k == Find(s, sep, 1)
    IN  IF k = 0 THEN <<s>>
        ELSE <<SubSeq(s, 1, k - 1)>> \o Split(Drop(s, k + 1), sep)

RECURSIVE SkipNonWs(_, _)
\* the first position >= i of s whose character is a blank (Len(s) + 1 if none)
SkipNonWs(s, i) ==
    IF i <= Len(s) /\ ~IsWs(Char(s, i)) THEN SkipNonWs(s, i + 1) ELSE i

RECURSIVE WordsFrom(_, _)
\* the number of maximal runs of non-blanks of s from position i
WordsFrom(s, i) ==
    LET b == SkipWs(s, i)
    IN  IF b > Len(s) THEN 0 ELSE 1 + WordsFrom(s, SkipNonWs(s, b))

\* len(s.split())
WordCount(s) == WordsFrom(s, 1)

\* \b of the regular expressions between positions i - 1 and i of s
WordBoundary(s, i) == IsWord(CharAt(s, i - 1)) # IsWord(CharAt(s, i))

\* every character of s from i to j is in S
AllIn(s, i, j, S) == \A k \in i..j : CharAt(s, k) \in S

RECURSIVE DedupeInto(_, _)
\* dict.fromkeys(items), keys in insertion order, onto the keys acc
DedupeInto(items, acc) ==
    IF items = <<>> THEN acc
    ELSE DedupeInto(Tail(items),
                    IF \E k \in 1..Len(acc) : acc[k] = Head(items)
                    THEN acc ELSE Append(acc, Head(items)))

\* list(dict.fromkeys(items)): the first occurrences, in order
Dedupe(items) == DedupeInto(items, <<>>)

\* items[:n] of Python for a list
TakeSeq(items, n) == IF Len(items) <= n THEN items ELSE SubSeq(items, 1, n)

RECURSIVE Concat(_)
\* the concatenation of a sequence of strings
Concat(parts) ==
    IF parts = <<>> THEN "" ELSE Head(parts) \o Concat(Tail(parts))

\* every sequence of at most n elements of S
SeqsUpTo(S, n) == UNION {[1..k -> S] : k \in 0..n}

-----------------------------------------------------------------------------
(* Document classification: analysis/doc_parser.py *)

SOW_SIGNALS == <<
    "performance work statement", "statement of work", "scope of work",
    "labor categories", "labor category", "key personnel",
    "period of performance", "deliverables", "task order",
    "contract line item", "clin", "work requirements",
    "contractor shall", "the contractor shall" >>

EVAL_SIGNALS == <<
    "evaluation criteria", "evaluation factor", "basis for award",
    "factor 1", "factor i", "evaluation methodology",
    "best value", "lowest price technically acceptable",
    "technical evaluation", "oral presentation",
    "past performance", "price evaluation",
    "adjectival rating", "rating scale" >>

sol_signals == <<
    "request for proposal", "rfp", "solicitation number",
    "section l", "section m", "offeror", "offerors",
    "phase i", "phase ii", "submission instructions",
    "representations and certifications", "evaluation and selection",
    "advisory down-select", "instructions to offerors" >>

Labels == {"pws", "sow", "solicitation", "evaluation_criteria", "unknown"}

\* text_preview[:5000]
PreviewLen == 5000

\* sum(1 for s in signals if s in preview)
Score(signals, preview) ==
    Cardinality({k \in 1..Len(signals) : Contains(preview, signals[k])})

preview_of(text_preview) == LowerStr(Take(text_preview, PreviewLen))

sow_score(preview) == Score(SOW_SIGNALS, preview)
eval_score(preview) == Score(EVAL_SIGNALS, preview)
sol_score(preview) == Score(sol_signals, preview)

\* score_label without its final `return "unknown"' (the call then yields None)
score_label_no_default(sow, eval, sol) ==
    IF sol >= 3 THEN "solicitation"
    ELSE IF sol >= 1 /\ eval >= 2 THEN "solicitation"
    ELSE IF eval >= 3 /\ eval > sow THEN "evaluation_criteria"
    ELSE IF sow >= 3 /\ sol = 0 THEN "sow"
    ELSE IF sol >= 1 THEN "solicitation"
    ELSE "None"

\* score_label with eval_score >= sow_score in place of >
score_label_ge(sow, eval, sol) ==
    IF sol >= 3 THEN "solicitation"
    ELSE IF sol >= 1 /\ eval >= 2 THEN "solicitation"
    ELSE IF eval >= 3 /\ eval >= sow THEN "evaluation_criteria"
    ELSE IF sow >= 3 /\ sol = 0 THEN "sow"
    ELSE IF sol >= 1 THEN "solicitation"
    ELSE "unknown"

\* score_label whose "sow" row does not require sol_score == 0
score_label_sow_any_sol(sow, eval, sol) ==
    IF sol >= 3 THEN "solicitation"
    ELSE IF sol >= 1 /\ eval >= 2 THEN "solicitation"
    ELSE IF eval >= 3 /\ eval > sow THEN "evaluation_criteria"
    ELSE IF sow >= 3 THEN "sow"
    ELSE IF sol >= 1 THEN "solicitation"
    ELSE "unknown"

\* the if-chain of classify_document over the three scores
score_label(sow, eval, sol) ==
    IF sol >= 3 THEN "solicitation"
    ELSE IF sol >= 1 /\ eval >= 2 THEN "solicitation"
    ELSE IF eval >= 3 /\ eval > sow THEN "evaluation_criteria"
    ELSE IF sow >= 3 /\ sol = 0 THEN "sow"
    ELSE IF sol >= 1 THEN "solicitation"
    ELSE "unknown"

\* the scoring part of classify_document: the label when no file name hint applies
score_of(text_preview) ==
    LET preview == preview_of(text_preview)
    IN  score_label(sow_score(preview), eval_score(preview), sol_score(preview))

\* classify_document testing the "sow" hint before the "pws" hint
classify_sow_first(name, text_preview) ==
    LET lower_name == LowerStr(name)
    IN  IF Contains(lower_name, "sow") /\ ~Contains(lower_name, "rfp") THEN "sow"
        ELSE IF Contains(lower_name, "pws") THEN "pws"
        ELSE score_of(text_preview)

\* classify_document without the "rfp" exclusion of the "sow" hint
classify_ignoring_rfp(name, text_preview) ==
    LET lower_name == LowerStr(name)
    IN  IF Contains(lower_name, "pws") THEN "pws"
        ELSE IF Contains(lower_name, "sow") THEN "sow"
        ELSE score_of(text_preview)

classify_document(name, text_preview) ==
    LET lower_name == LowerStr(name)
    IN  IF Contains(lower_name, "pws") THEN "pws"
        ELSE IF Contains(lower_name, "sow") /\ ~Contains(lower_name, "rfp") THEN "sow"
        ELSE score_of(text_preview)

-----------------------------------------------------------------------------
(* Section location: analysis/doc_parser.py, _find_section *)

\* the 3000 characters a section spans when no later heading is found
SectionCap == 3000

\* \d+[\.\)] at position i of s: the position after it, 0 if it does not occur
NumberToken(s, i) ==
    LET d == SkipDigits(s, i)
    IN  IF d > i /\ CharAt(s, d) \in {".", ")"} THEN d + 1 ELSE 0

\* (?:^|\n)\s*(?:\d+[\.\)]\s*)? can end right before position h of s
HeaderPrefixOk(s, h) ==
    LET q == SkipSetBack(s, h - 1, WsSet)       \* last non-blank before h
        anchored(a, b) ==                       \* blanks a..b hold ^ or \n
            a = 1 \/ \E k \in a..b : Char(s, k) = "\n"
        d == SkipSetBack(s, q - 1, DigitSet)    \* last non-digit before the token
        b == SkipSetBack(s, d, WsSet)
    IN  \/ anchored(q + 1, h - 1)
        \/ /\ q >= 2 /\ Char(s, q) \in {".", ")"} /\ d < q - 1
           /\ anchored(b + 1, d)

\* the last "\n" among the blanks from position i of s: the position after
\* it, 0 if the blanks hold none
AfterLastNewline(s, i) ==
    LET e == SkipWs(s, i)
        nl == {k \in i..(e - 1) : Char(s, k) = "\n"}
    IN  IF nl = {} THEN 0 ELSE (CHOOSE k \in nl : \A j \in nl : j <= k) + 1

\* \s*[:\.\-]?\s*\n at position i of s: m.end() (counted from 1: the first
\* position of the body), 0 if it does not match
HeaderSuffixEnd(s, i) ==
    LET e == SkipWs(s, i)
        withPunct == IF CharAt(s, e) \in {":", ".", "-"}
                     THEN AfterLastNewline(s, e + 1) ELSE 0
    IN  IF withPunct # 0 THEN withPunct ELSE AfterLastNewline(s, i)

\* re.search of the header pattern: the first position of the body, 0 if none
HeaderMatchEnd(s, header) ==
    MinOr({HeaderSuffixEnd(s, h + Len(header)) :
              h \in {k \in 1..(Len(s) - Len(header) + 1) :
                        /\ AtCI(s, k, header)
                        /\ HeaderPrefixOk(s, k)}} \ {0}, 0)

\* \n\s*(?:\d+[\.\)]\s+)?[A-Z][A-Z ]{5,} matches s at position p
HeadingAt(s, p) ==
    LET j == SkipWs(s, p + 1)
        caps(k) == IsUpper(CharAt(s, k)) /\ AllIn(s, k + 1, k + 5, UpperSet \cup {" "})
        t == NumberToken(s, j)
    IN  /\ CharAt(s, p) = "\n"
        /\ \/ caps(j)
           \/ t # 0 /\ SkipWs(s, t) > t /\ caps(SkipWs(s, t))

\* rest[:end_match.start()] when the heading pattern matches rest, else
\* rest[:3000], stripped
SectionOf(rest) ==
    Strip(Take(rest, MinOr({p - 1 : p \in {q \in 1..Len(rest) : HeadingAt(rest, q)}},
                           SectionCap)))

\* the section of one header whose body starts at position start
SectionFrom(s, start) == SectionOf(Drop(s, start))

RECURSIVE find_section_from(_, _, _)
RECURSIVE section_or_next(_, _, _, _)

\* one turn of the loop over the headers: start is where the body of header
\* k starts, 0 when the header was not found
section_or_next(s, headers, k, start) ==
    IF start # 0 THEN SectionFrom(s, start) ELSE find_section_from(s, headers, k + 1)

\* a mutant: the last header of the list that the text holds wins
find_section_from_last(s, headers, k) ==
    LET found == {j \in k..Len(headers) : HeaderMatchEnd(s, headers[j]) # 0}
    IN  IF found = {} THEN ""
        ELSE SectionFrom(s, HeaderMatchEnd(s,
                     headers[CHOOSE j \in found : \A i \in found : i <= j]))

find_section_from(s, headers, k) ==
    IF k > Len(headers) THEN ""
    ELSE section_or_next(s, headers, k, HeaderMatchEnd(s, headers[k]))

_find_section(s, headers) == find_section_from(s, headers, 1)

-----------------------------------------------------------------------------
(* Labor categories: analysis/doc_parser.py, _extract_labor_categories *)

\* the section header phrases that are never role names
noise == {
    "transition-out plan", "ordering procedures", "key personnel",
    "labor categories", "labor category", "deliverables",
    "background", "scope", "requirements", "overview",
    "submission instructions", "phase i", "phase ii",
    "far references", "volume", "attachment", "section",
    "contact", "list of", "evaluation", "instructions",
    "table of contents", "price quotation", "pricing",
    "invoice", "billing", "payment", "contract type",
    "task order", "base year", "option year", "period of performance",
    "place of performance", "government furnished", "contractor furnished",
    "quality assurance surveillance plan", "performance standards",
    "not applicable", "to be determined", "see below",
    "contractor support notification", "maintenance and support",
    "building operations support" }

\* one of the lower-case phrases of S occurs in s, letter case ignored
AnyInCI(s, S) == LET low == LowerStr(s) IN \E p \in S : Contains(low, p)

\* s starts with one of the lower-case phrases of S, letter case ignored:
\* the positions right after such a prefix
PrefixEndsCI(s, S) == {Len(p) + 1 : p \in {q \in S : AtCI(s, 1, q)}}

\* \b[A-Z]{2}\s+\d{5}: a two-letter state and a ZIP code
HasStateZip(s) ==
    \E i \in 1..Len(s) :
        /\ IsAlpha(CharAt(s, i)) /\ IsAlpha(CharAt(s, i + 1))
        /\ ~IsWord(CharAt(s, i - 1))
        /\ LET d == SkipWs(s, i + 2)
           IN  d > i + 2 /\ AllIn(s, d, d + 4, DigitSet)

\* <word>\s+\d, letter case ignored (FAR\s+\d+, DFARS\s+\d+, BRANCH\s+\d)
HasWordNumber(s, word) ==
    \E i \in 1..Len(s) :
        /\ AtCI(s, i, word)
        /\ LET d == SkipWs(s, i + Len(word))
           IN  d > i + Len(word) /\ IsDigit(CharAt(s, d))

\* ^\d+\.\d+[\.\d]*\s: a section number
StartsWithSectionNumber(s) ==
    LET a == SkipDigits(s, 1)
        b == SkipDigits(s, a + 1)
        c == SkipSet(s, b, DigitSet \cup {"."})
    IN  a > 1 /\ CharAt(s, a) = "." /\ b > a + 1 /\ IsWs(CharAt(s, c))

\* ^\d{4}\s+[A-Z].*(?:Street|Ave|Blvd|Road|Suite|Floor): a street address
StartsWithAddress(s) ==
    LET d == SkipWs(s, 5)
    IN  /\ AllIn(s, 1, 4, DigitSet) /\ d > 5 /\ IsAlpha(CharAt(s, d))
        /\ AnyInCI(Drop(s, d + 1), {"street", "ave", "blvd", "road", "suite", "floor"})

\* ^(?:w1|w2|...)\s+<one character of the class>
StartsWithWordThen(s, words, class) ==
    \E e \in PrefixEndsCI(s, words) :
        LET d == SkipWs(s, e) IN d > e /\ CharAt(s, d) \in class

\* ^(?:w1|w2|...)\b
StartsWithWordB(s, words) ==
    \E e \in PrefixEndsCI(s, words) : WordBoundary(s, e)

\* \bphrase\b, letter case ignored
HasWordCI(s, phrase) ==
    \E i \in 1..Len(s) :
        AtCI(s, i, phrase) /\ WordBoundary(s, i) /\ WordBoundary(s, i + Len(phrase))

\* name\s*plate
HasNamePlate(s) ==
    \E i \in 1..Len(s) : AtCI(s, i, "name") /\ AtCI(s, SkipWs(s, i + 4), "plate")

\* ^\w+ing/\w+ing\b: a gerund pair such as Opening/closing
StartsWithGerundPair(s) ==
    LET w == SkipSet(s, 1, WordSet)
        v == SkipSet(s, w + 1, WordSet)
    IN  /\ w >= 5 /\ AtCI(s, w - 3, "ing") /\ CharAt(s, w) = "/"
        /\ \E e \in (w + 5)..v :
              AtCI(s, e - 3, "ing") /\ WordBoundary(s, e)

\* _noise_re.search(line)
noise_re(line) ==
    \/ HasStateZip(line)
    \/ HasWordNumber(line, "far")
    \/ HasWordNumber(line, "dfars")
    \/ StartsWithSectionNumber(line)
    \/ StartsWithWordThen(line, {"row"}, DigitSet)
    \/ StartsWithAddress(line)
    \/ \E e \in PrefixEndsCI(line, {"phone", "fax", "email", "tel"}) :
          CharAt(line, e) \in WsSet \cup {":"}
    \/ StartsWithWordThen(line, {"section", "part", "article"},
                          UpperSet \cup LowerSet \cup DigitSet)
    \/ StartsWithWordThen(line, {"attachment"}, UpperSet \cup LowerSet \cup DigitSet)
    \/ StartsWithWordB(line, {"clin", "sin", "ffp", "t&m", "loe"})
    \/ AnyInCI(line, {"invoice", "billing", "payment", "reimburs"})
    \/ HasWordNumber(line, "branch")
    \/ StartsWithWordB(line, {"office of"})
    \/ HasWordCI(line, "contracting officer")
    \/ AnyInCI(line, {"inspector general"})
    \/ PrefixEndsCI(line, {"inspect", "provide", "deliver", "install", "perform",
                           "conduct", "ensure", "maintain", "review", "prepare"}) # {}
    \/ AnyInCI(line, {"workspace", "office or", "break room", "conference room"})
    \/ HasNamePlate(line)
    \/ AnyInCI(line, {"lightbulb", "umbrella", "sanitizer", "refrigerator", "microwave"})
    \/ StartsWithWordThen(line, {"box", "paper", "picture"}, WordSet)
    \/ \E w \in {"assistance", "delivery", "installation", "removal", "replacement"} :
          AtCI(line, Len(line) - Len(w) + 1, w)
    \/ StartsWithGerundPair(line)
    \/ StartsWithWordB(line, {"scope of work", "duration of", "requestor"})
    \/ AnyInCI(line, {"point of contact"})

role_words == {
    "manager", "analyst", "developer", "engineer", "specialist", "consultant",
    "architect", "lead", "director", "attorney", "paralegal", "associate", "partner",
    "counsel", "advisor", "coordinator", "designer", "researcher", "administrator",
    "expert", "technician", "scientist", "auditor", "accountant", "writer", "editor",
    "trainer", "instructor", "officer", "planner", "strategist", "support", "staff",
    "programmer", "assistant", "secretary", "clerk", "inspector", "supervisor",
    "superintendent", "foreman", "mechanic", "electrician", "operator" }

\* _role_words.search(line)
has_role_word(line) == \E w \in role_words : HasWordCI(line, w)

\* re.match(r"^[A-Z][a-zA-Z /\-\(\)]+$", line) and 2 <= len(line.split()) <= 8
RoleShape(line) ==
    /\ Len(line) >= 2 /\ IsUpper(Char(line, 1))
    /\ AllIn(line, 2, Len(line), UpperSet \cup LowerSet \cup {" ", "/", "-", "(", ")"})
    /\ WordCount(line) >= 2 /\ WordCount(line) <= 8

\* re.match(r"^[A-Z][a-zA-Z]+.*(?:Level|Sr|Jr|I{1,3}|Senior|Junior)", line)
\* and len(line) <= 60
LevelShape(line) ==
    /\ IsUpper(CharAt(line, 1)) /\ IsAlpha(CharAt(line, 2))
    /\ \E k \in 3..Len(line) :
          \E q \in {"Level", "Sr", "Jr", "I", "Senior", "Junior"} : At(line, k, q)
    /\ Len(line) <= 60

\* the characters line.lstrip("...0123456789.) ") removes (ASCII part)
BulletSet == DigitSet \cup {"-", ".", ")", " "}

\* the candidate of one line of the section: the line stripped of blanks and
\* of its bullet or number
candidate(raw) == LStripSet(Strip(raw), BulletSet)

\* the body of the line loop: TRUE when the candidate is appended to cats
is_role_line(line) ==
    /\ line # "" /\ Len(line) <= 80
    /\ LowerStr(line) \notin noise
    /\ ~noise_re(line)
    /\ RoleShape(line) \/ LevelShape(line)
    /\ has_role_word(line)

RECURSIVE SelectCandidates(_)
SelectCandidates(lines) ==
    IF lines = <<>> THEN <<>>
    ELSE LET line == candidate(Head(lines))
         IN  (IF is_role_line(line) THEN <<line>> ELSE <<>>)
             \o SelectCandidates(Tail(lines))

\* `section if section else text'
OrText(section, s) == IF section # "" THEN section ELSE s

\* the entries of the line loop
line_categories(s) ==
    SelectCandidates(Split(
        OrText(_find_section(s, <<"labor categories", "labor category", "key personnel">>),
               s), "\n"))

\* (?:labor\s+categor\w+|key\s+personnel) at position i of s: the position
\* after it, 0 if it does not occur
InlineSubject(s, i) ==
    LET a == SkipWs(s, i + 5)
        w == SkipSet(s, a + 7, WordSet)
        b == SkipWs(s, i + 3)
    IN  IF AtCI(s, i, "labor") /\ a > i + 5 /\ AtCI(s, a, "categor") /\ w > a + 7
        THEN w
        ELSE IF AtCI(s, i, "key") /\ b > i + 3 /\ AtCI(s, b, "personnel")
        THEN b + 9
        ELSE 0

\* \s+(?:shall\s+)?include[:\s]+ at position j of s: the position after it,
\* 0 if it does not occur
InlineVerb(s, j) ==
    LET a == SkipWs(s, j)
        b == SkipWs(s, a + 5)
        c == IF AtCI(s, a, "shall") /\ b > a + 5 THEN b ELSE a
        g == SkipSet(s, c + 7, WsSet \cup {":"})
    IN  IF a > j /\ AtCI(s, c, "include") /\ g > c + 7 THEN g ELSE 0

\* (.*?)(?:\.|$) from position k of s: the position after the group, 0 if a
\* line break comes first
LazyToStop(s, k) ==
    LET dot == Find(s, ".", k)
        nl == Find(s, "\n", k)
        stop == IF dot = 0 THEN Len(s) + 1 ELSE dot
    IN  IF nl # 0 /\ nl < stop THEN (IF nl = Len(s) THEN nl ELSE 0) ELSE stop

\* group(1) of the inline search at position i of s, as <<found, group>>
InlineAt(s, i) ==
    LET Group(g, e) == IF e = 0 THEN <<FALSE, "">> ELSE <<TRUE, SubSeq(s, g, e - 1)>>
        AfterVerb(g) == Group(g, IF g = 0 THEN 0 ELSE LazyToStop(s, g))
        AfterSubject(j) == AfterVerb(IF j = 0 THEN 0 ELSE InlineVerb(s, j))
    IN  AfterSubject(InlineSubject(s, i))

\* re.search of the inline pattern: <<found, group(1)>> of the leftmost match
InlineSearch(s) == InlineAt(s, MinOr({i \in 1..Len(s) : InlineAt(s, i)[1]}, 0))

\* ,\s*(?:and\s+)? at the comma at position k of s: the position after it
SeparatorEnd(s, k) ==
    LET a == SkipWs(s, k + 1)
        b == SkipWs(s, a + 3)
    IN  IF At(s, a, "and") /\ b > a + 3 THEN b ELSE a

RECURSIVE SplitList(_)
\* re.split(r",\s*(?:and\s+)?", s)
SplitList(s) ==
    LET k == Find(s, ",", 1)
    IN  IF k = 0 THEN <<s>>
        ELSE <<SubSeq(s, 1, k - 1)>> \o SplitList(Drop(s, SeparatorEnd(s, k)))

RECURSIVE SelectParts(_)
SelectParts(parts) ==
    IF parts = <<>> THEN <<>>
    ELSE LET part == Strip(Head(parts))
         IN  (IF part # "" /\ WordCount(part) >= 2 /\ WordCount(part) <= 6
                    /\ Len(part) <= 60
              THEN <<part>> ELSE <<>>)
             \o SelectParts(Tail(parts))

\* the parts of group(1) of the match m of the inline search
parts_of(m) == IF m[1] THEN SelectParts(SplitList(m[2])) ELSE <<>>

\* the entries of the inline "... include: A, B, and C" sentence
inline_categories(s) == parts_of(InlineSearch(s))

\* a mutant: the inline entries come first
cats_of_inline_first(s) == inline_categories(s) \o line_categories(s)

\* the list before deduplication: line entries, then inline entries
cats_of(s) == line_categories(s) \o inline_categories(s)

_extract_labor_categories(s) == Dedupe(cats_of(s))

-----------------------------------------------------------------------------
(* The other SOW fields: analysis/doc_parser.py *)

RECURSIVE StripAll(_)
\* [l.strip() for l in lines if l.strip()]
StripAll(lines) ==
    IF lines = <<>> THEN <<>>
    ELSE (IF Strip(Head(lines)) # "" THEN <<Strip(Head(lines))>> ELSE <<>>)
         \o StripAll(Tail(lines))

RECURSIVE Join(_, _)
\* sep.join(items)
Join(items, sep) ==
    IF items = <<>> THEN ""
    ELSE IF Len(items) = 1 THEN items[1]
    ELSE items[1] \o sep \o Join(Tail(items), sep)

\* the first position k >= from, before the position stop, where four digits
\* start and end before stop; 0 if none
FourDigits(s, from, stop) ==
    MinOr({k \in from..(stop - 4) : AllIn(s, k, k + 3, DigitSet)}, 0)

\* the position of the first line break of s at or after i, Len(s) + 1 if none
LineEnd(s, i) == MinOr({k \in i..Len(s) : Char(s, k) = "\n"}, Len(s) + 1)

\* (?:period of performance|pop)[:\s]*(.*?\d{4}.*?\d{4}) at position i of s:
\* <<found, group(1)>>
PopAt(s, i) ==
    LET Group(g, b) == IF b = 0 THEN <<FALSE, "">> ELSE <<TRUE, SubSeq(s, g, b + 3)>>
        Second(g, stop, a) == Group(g, IF a = 0 THEN 0 ELSE FourDigits(s, a + 4, stop))
        First(g, stop) == Second(g, stop, FourDigits(s, g, stop))
        From(g) == First(g, LineEnd(s, g))
        After(n) == IF n = 0 THEN <<FALSE, "">>
                    ELSE From(SkipSet(s, i + n, WsSet \cup {":"}))
    IN  After(IF AtCI(s, i, "period of performance") THEN 21
              ELSE IF AtCI(s, i, "pop") THEN 3 ELSE 0)

\* the fallback of _extract_pop: group(1) of re.search, stripped ("" when the
\* pattern does not match)
pop_search(s) == Strip(PopAt(s, MinOr({i \in 1..Len(s) : PopAt(s, i)[1]}, 0))[2])

\* the first three non-blank lines of the section, else the fallback
pop_of(section, s) ==
    IF section # "" THEN Join(TakeSeq(StripAll(Split(section, "\n")), 3), " ")
    ELSE pop_search(s)

\* a mutant: a text without a period of performance gets a default
_extract_pop_or_default(s) ==
    IF pop_of(_find_section(s, <<"period of performance">>), s) = ""
    THEN "Not specified"
    ELSE pop_of(_find_section(s, <<"period of performance">>), s)

_extract_pop(s) == pop_of(_find_section(s, <<"period of performance">>), s)

\* items[:20] of _extract_deliverables, tasks[:30] of _extract_key_tasks,
\* scope_section[:1000] of build_sow_analysis
DeliverablesCap == 20
KeyTasksCap == 30
ScopeCap == 1000

RECURSIVE SelectDeliverables(_)
SelectDeliverables(lines) ==
    IF lines = <<>> THEN <<>>
    ELSE LET line == candidate(Head(lines))
         IN  (IF line # "" /\ Len(line) > 10 THEN <<line>> ELSE <<>>)
             \o SelectDeliverables(Tail(lines))

\* the items of the deliverables section
deliverables_of(section) ==
    IF section = "" THEN <<>>
    ELSE TakeSeq(SelectDeliverables(Split(section, "\n")), DeliverablesCap)

_extract_deliverables(s) ==
    deliverables_of(_find_section(s, <<"deliverables", "deliverable",
                                       "contract deliverables">>))

\* the regulatory terms, as <<term, term.lower()>>
keywords == <<
    <<"Section 508", "section 508">>, <<"CUI", "cui">>,
    <<"Controlled Unclassified", "controlled unclassified">>,
    <<"FISMA", "fisma">>, <<"FedRAMP", "fedramp">>, <<"NIST 800", "nist 800">>,
    <<"ITAR", "itar">>, <<"EAR", "ear">>, <<"FAR 52", "far 52">>,
    <<"DFARS", "dfars">>, <<"Privacy Act", "privacy act">>, <<"HIPAA", "hipaa">>,
    <<"clearance", "clearance">>, <<"security clearance", "security clearance">>,
    <<"public trust", "public trust">> >>

RECURSIVE FoundKeywords(_, _)
FoundKeywords(lower, k) ==
    IF k > Len(keywords) THEN <<>>
    ELSE (IF Contains(lower, keywords[k][2]) THEN <<keywords[k][1]>> ELSE <<>>)
         \o FoundKeywords(lower, k + 1)

\* FAR\s+\d+\.\d+[\-\d]* at position i of s: the position after it, 0 if none
FarClauseEnd(s, i) ==
    LET a == SkipWs(s, i + 3)
        b == SkipDigits(s, a)
        c == SkipDigits(s, b + 1)
    IN  IF AtCI(s, i, "far") /\ a > i + 3 /\ b > a /\ CharAt(s, b) = "." /\ c > b + 1
        THEN SkipSet(s, c, DigitSet \cup {"-"})
        ELSE 0

RECURSIVE FarClauses(_, _)
\* [m.group(0) for m in re.finditer(...)] from position i
FarClauses(s, i) ==
    LET hits == {k \in i..Len(s) : FarClauseEnd(s, k) # 0}
    IN  IF hits = {} THEN <<>>
        ELSE LET k == Min(hits)
                 e == FarClauseEnd(s, k)
             IN  <<SubSeq(s, k, e - 1)>> \o FarClauses(s, e)

_extract_compliance(s) ==
    Dedupe(FoundKeywords(LowerStr(s), 1) \o FarClauses(s, 1))

RECURSIVE SelectTasks(_)
SelectTasks(lines) ==
    IF lines = <<>> THEN <<>>
    ELSE LET line == LStripSet(Strip(Head(lines)), {"-"})
             a == SkipSet(line, 1, DigitSet \cup {"."})
             b == SkipWs(line, a)
         IN  \* re.match(r"^[\d\.]+\s+(.+)", line); a stripped line does not
             \* end with a blank, so something follows the blanks
             (IF a > 1 /\ b > a /\ b <= Len(line) THEN <<Strip(Drop(line, b))>>
              ELSE IF line # "" /\ Len(line) > 15 /\ IsUpper(Char(line, 1))
              THEN <<line>>
              ELSE <<>>)
             \o SelectTasks(Tail(lines))

\* a mutant: every task of the section is kept
tasks_of_uncapped(section) ==
    IF section = "" THEN <<>> ELSE SelectTasks(Split(section, "\n"))

\* the tasks of the scope section
tasks_of(section) ==
    IF section = "" THEN <<>>
    ELSE TakeSeq(SelectTasks(Split(section, "\n")), KeyTasksCap)

_extract_key_tasks(s) ==
    tasks_of(_find_section(s, <<"scope of work", "scope", "tasks", "task areas",
                                "requirements", "work requirements">>))

\* re.search(r"place of performance[:\s]*(.*?)(?:\n|$)", ...): group(1) stripped
place_of_performance(s) ==
    LET hits == {i \in 1..Len(s) : AtCI(s, i, "place of performance")}
        g == SkipSet(s, Min(hits) + 20, WsSet \cup {":"})
        nl == Find(s, "\n", g)
    IN  IF hits = {} THEN ""
        ELSE Strip(SubSeq(s, g, IF nl = 0 THEN Len(s) ELSE nl - 1))

\* round(num / den, 2), in hundredths
Round2(num, den) == (200 * num + den) \div (2 * den)

\* sum(bool(x) for x in fields)
CountTrue(flags) == Cardinality({k \in 1..Len(flags) : flags[k]})

\* the characters json.dumps writes as a two-character escape, as
\* <<character, escape letter>> (the control characters of the model's alphabet)
JsonEscapes == << <<"\"", "\"">>, <<"\\", "\\">>, <<"\n", "n">>, <<"\t", "t">> >>

EscapedSet == {JsonEscapes[k][1] : k \in 1..Len(JsonEscapes)}

EscapeOf(c) == JsonEscapes[CHOOSE k \in 1..Len(JsonEscapes) : JsonEscapes[k][1] = c][2]
UnescapeOf(c) == JsonEscapes[CHOOSE k \in 1..Len(JsonEscapes) : JsonEscapes[k][2] = c][1]

RECURSIVE JsonEscape(_)
\* the body of the JSON string literal of s
JsonEscape(s) ==
    LET hits == {k \in 1..Len(s) : Char(s, k) \in EscapedSet}
    IN  IF hits = {} THEN s
        ELSE LET k == Min(hits)
             IN  SubSeq(s, 1, k - 1) \o "\\" \o EscapeOf(Char(s, k))
                 \o JsonEscape(Drop(s, k + 1))

RECURSIVE JsonUnescape(_)
\* the string a JSON string literal body stands for
JsonUnescape(s) ==
    LET k == Find(s, "\\", 1)
    IN  IF k = 0 THEN s
        ELSE SubSeq(s, 1, k - 1) \o UnescapeOf(Char(s, k + 1))
             \o JsonUnescape(Drop(s, k + 2))

RECURSIVE JsonItems(_)
JsonItems(items) ==
    IF items = <<>> THEN <<>>
    ELSE <<"\"" \o JsonEscape(Head(items)) \o "\"">> \o JsonItems(Tail(items))

\* json.dumps(items) for a list of strings
json_dumps(items) == "[" \o Join(JsonItems(items), ", ") \o "]"

\* the position of the quote that closes the string literal opened before
\* position i of j: the first quote preceded by an even number of backslashes
ClosingQuote(j, i) ==
    Min({k \in i..Len(j) :
            /\ Char(j, k) = "\""
            /\ (k - 1 - SkipSetBack(j, k - 1, {"\\"})) % 2 = 0})

RECURSIVE JsonParseItems(_, _)
\* the strings of the array text j from the opening quote at position i
JsonParseItems(j, i) ==
    LET e == ClosingQuote(j, i + 1)
        item == JsonUnescape(SubSeq(j, i + 1, e - 1))
    IN  IF Char(j, e + 1) = "," THEN <<item>> \o JsonParseItems(j, SkipWs(j, e + 2))
        ELSE <<item>>

\* json.loads(j) for the text of a list of strings
json_loads(j) ==
    LET i == SkipWs(j, 2)
    IN  IF Char(j, i) = "]" THEN <<>> ELSE JsonParseItems(j, i)

\* a mutant: the period of performance is not counted
fields_found_without_pop(scope_summary, pop, labor_cats, deliverables, key_tasks) ==
    CountTrue(<<scope_summary # "", labor_cats # <<>>, deliverables # <<>>,
                key_tasks # <<>> >>)

\* sum(bool(x) for x in [scope_summary, pop, labor_cats, deliverables, key_tasks])
fields_found(scope_summary, pop, labor_cats, deliverables, key_tasks) ==
    CountTrue(<<scope_summary # "", pop # "", labor_cats # <<>>, deliverables # <<>>,
                key_tasks # <<>> >>)

\* the dictionary build_sow_analysis returns for the extracted fields; now is
\* the reading of the clock, confidence_score is in hundredths
sow_record(document_id, solicitation_id, notice_id, scope_summary, pop, place, labor_cats, deliverables, compliance, key_tasks, now) ==
    [ document_id |-> document_id,
      solicitation_id |-> solicitation_id,
      notice_id |-> notice_id,
      scope_summary |-> scope_summary,
      period_of_performance |-> pop,
      place_of_performance |-> place,
      key_tasks |-> json_dumps(key_tasks),
      labor_categories |-> json_dumps(labor_cats),
      deliverables |-> json_dumps(deliverables),
      compliance_reqs |-> json_dumps(compliance),
      ordering_mechanism |-> "",
      billing_instructions |-> "",
      confidence_score |->
          Round2(fields_found(scope_summary, pop, labor_cats, deliverables, key_tasks), 5),
      extraction_method |-> "regex",
      created_at |-> now ]

build_sow_analysis(document_id, solicitation_id, notice_id, s, now) ==
    sow_record(document_id, solicitation_id, notice_id,
               Take(_find_section(s, <<"scope", "scope of work", "introduction",
                                       "background and scope", "purpose", "objective">>),
                    ScopeCap),
               _extract_pop(s),
               place_of_performance(s),
               _extract_labor_categories(s),
               _extract_deliverables(s),
               _extract_compliance(s),
               _extract_key_tasks(s),
               now)

-----------------------------------------------------------------------------
(* Evaluation factors: analysis/doc_parser.py *)

\* text[start:start + 2000] of the last factor, section[:1000] of a description
WindowCap == 2000
DescriptionCap == 1000

\* the greatest element of a non-empty set of integers
Max(S) == CHOOSE x \in S : \A y \in S : x >= y

DigitVal(c) == CHOOSE d \in 0..9 : Char(Digits, d + 1) = c

RECURSIVE ParseInt(_)
\* int(s) for a string of decimal digits
ParseInt(s) ==
    IF Len(s) = 0 THEN 0
    ELSE 10 * ParseInt(SubSeq(s, 1, Len(s) - 1)) + DigitVal(Char(s, Len(s)))

\* the table of _parse_factor_number: roman[k] stands for k
roman == <<"I", "II", "III", "IV", "V", "VI", "VII">>

\* a mutant: the letter rule counts from A = 0
_parse_factor_number_from_zero(raw) ==
    IF raw # "" /\ AllIn(raw, 1, Len(raw), DigitSet) THEN ParseInt(raw)
    ELSE IF \E k \in 1..Len(roman) : roman[k] = UpperStr(raw)
    THEN CHOOSE k \in 1..Len(roman) : roman[k] = UpperStr(raw)
    ELSE IF Len(raw) = 1 /\ IsAlpha(raw)
    THEN (CHOOSE k \in 1..26 : Char(UpperAlpha, k) = UpperChar(raw)) - 1
    ELSE 0

_parse_factor_number(raw) ==
    IF raw # "" /\ AllIn(raw, 1, Len(raw), DigitSet) THEN ParseInt(raw)
    ELSE IF \E k \in 1..Len(roman) : roman[k] = UpperStr(raw)
    THEN CHOOSE k \in 1..Len(roman) : roman[k] = UpperStr(raw)
    ELSE IF Len(raw) = 1 /\ IsAlpha(raw)
    THEN CHOOSE k \in 1..26 : Char(UpperAlpha, k) = UpperChar(raw)
    ELSE 0

\* \s*(.+?)(?:\n|$) at position b of s (\s+ when min = 1), as <<found, start
\* of the group, position after the group, position after the match>>. The
\* group starts at the first non-blank and runs to the end of its line; when
\* only blanks follow b, the blanks are given back until the group can take
\* one that is not a line break.
LineGroup(s, b, min) ==
    LET g == SkipWs(s, b)
        nl == Find(s, "\n", g)
        tail == {k \in (b + min)..Len(s) : Char(s, k) # "\n"}
    IN  IF g - b < min THEN <<FALSE, 0, 0, 0>>
        ELSE IF g <= Len(s)
        THEN (IF nl = 0 THEN <<TRUE, g, Len(s) + 1, Len(s) + 1>>
              ELSE <<TRUE, g, nl, nl + 1>>)
        ELSE IF tail = {} THEN <<FALSE, 0, 0, 0>>
        ELSE LET p == Max(tail)
             IN  <<TRUE, p, p + 1, IF p < Len(s) THEN p + 2 ELSE p + 1>>

\* [IVX] with letter case ignored
RomanSet == {"I", "V", "X", "i", "v", "x"}

\* [:\-] of the factor pattern (the two dashes outside ASCII are not in the
\* model's alphabet)
FactorSeps == {":", "-"}

\* (?:Factor|FACTOR)\s+(\d+|[IVX]+|[A-Z])\s*[:\-]\s*(.+?)(?:\n|$), letter case
\* ignored, at position i of s, as <<found, group(1), group(2), m.end()>>
FactorAt(s, i) ==
    LET NoMatch == <<FALSE, "", "", 0>>
        Name(a, t, m) ==
            IF m[1] THEN <<TRUE, SubSeq(s, a, t - 1), SubSeq(s, m[2], m[3] - 1), m[4]>>
            ELSE NoMatch
        Separator(a, t, b) ==
            IF t > a /\ CharAt(s, b) \in FactorSeps
            THEN Name(a, t, LineGroup(s, b + 1, 0)) ELSE NoMatch
        Number(a, d, r) ==
            IF d > a THEN Separator(a, d, SkipWs(s, d))
            ELSE IF r > a THEN Separator(a, r, SkipWs(s, r))
            ELSE IF IsAlpha(CharAt(s, a)) THEN Separator(a, a + 1, SkipWs(s, a + 1))
            ELSE NoMatch
        Keyword(a) ==
            IF a > i + 6 THEN Number(a, SkipDigits(s, a), SkipSet(s, a, RomanSet))
            ELSE NoMatch
    IN  IF AtCI(s, i, "factor") THEN Keyword(SkipWs(s, i + 6)) ELSE NoMatch

RECURSIVE FactorMatches(_, _)

\* the match m of the factor pattern at position i, and the matches after it
MatchAt(s, i, m) ==
    IF m[1]
    THEN <<[start |-> i, raw |-> m[2], name |-> m[3], end |-> m[4]]>>
         \o FactorMatches(s, m[4])
    ELSE <<>>

\* factor_pattern.finditer(s) from position from: the matches in text order
FactorMatches(s, from) ==
    LET Leftmost(i) == MatchAt(s, i, FactorAt(s, i))
    IN  Leftmost(MinOr({i \in from..Len(s) : FactorAt(s, i)[1]}, 0))

\* \(([a-z])\)\s*(.+?)(?:\n|$) at position i of s
ParenAt(s, i) ==
    IF CharAt(s, i) = "(" /\ IsLower(CharAt(s, i + 1)) /\ CharAt(s, i + 2) = ")"
    THEN LineGroup(s, i + 3, 0) ELSE <<FALSE, 0, 0, 0>>

\* (?:^|\n)\s*([a-z])\.\s+(.+?)(?:\n|$) at position i of s
DottedAt(s, i) ==
    LET l == SkipWs(s, i)
    IN  IF /\ i = 1 \/ CharAt(s, i) = "\n"
           /\ IsLower(CharAt(s, l)) /\ CharAt(s, l + 1) = "."
        THEN LineGroup(s, l + 2, 1) ELSE <<FALSE, 0, 0, 0>>

RECURSIVE ParenSubs(_, _)

\* group(2) of the match m, stripped, and the matches after it
ParenSub(s, m) ==
    IF m[1] THEN <<Strip(SubSeq(s, m[2], m[3] - 1))>> \o ParenSubs(s, m[4]) ELSE <<>>

\* the (a) ... subfactors of s from position from, in text order
ParenSubs(s, from) ==
    ParenSub(s, ParenAt(s, MinOr({i \in from..Len(s) : ParenAt(s, i)[1]}, 0)))

RECURSIVE DottedSubs(_, _)

DottedSub(s, m) ==
    IF m[1] THEN <<Strip(SubSeq(s, m[2], m[3] - 1))>> \o DottedSubs(s, m[4]) ELSE <<>>

\* the a. ... subfactors of s from position from, in text order
DottedSubs(s, from) ==
    DottedSub(s, DottedAt(s, MinOr({i \in from..Len(s) : DottedAt(s, i)[1]}, 0)))

\* `if not subs: <the second pattern>'
OrDotted(subs, section) == IF subs # <<>> THEN subs ELSE DottedSubs(section, 1)

_extract_subfactors(section) == OrDotted(ParenSubs(section, 1), section)

\* re.search of an alternation of fixed phrases, letter case ignored, as
\* <<found, group(0)>>: the leftmost position, there the first alternative
PhraseSearch(s, alts) ==
    LET hits == {i \in 1..Len(s) : \E k \in 1..Len(alts) : AtCI(s, i, alts[k])}
    IN  IF hits = {} THEN <<FALSE, "">>
        ELSE LET i == Min(hits)
                 k == Min({q \in 1..Len(alts) : AtCI(s, i, alts[q])})
             IN  <<TRUE, SubSeq(s, i, i + Len(alts[k]) - 1)>>

\* (\d+)\s*% at position i of s: the position of the percent sign, 0 if none
PercentAt(s, i) ==
    LET w == SkipWs(s, SkipDigits(s, i))
    IN  IF IsDigit(CharAt(s, i)) /\ CharAt(s, w) = "%" THEN w ELSE 0

\* (greater|lesser|equal)\s+(?:weight|importance) at position i of s: the
\* position after the match, 0 if none
RelativeAt(s, i) ==
    LET a == IF AtCI(s, i, "greater") THEN i + 7
             ELSE IF AtCI(s, i, "lesser") THEN i + 6
             ELSE IF AtCI(s, i, "equal") THEN i + 5 ELSE 0
        g == SkipWs(s, a)
    IN  IF a = 0 \/ g = a THEN 0
        ELSE IF AtCI(s, g, "weight") THEN g + 6
        ELSE IF AtCI(s, g, "importance") THEN g + 10
        ELSE 0

RECURSIVE WordsEnd(_, _, _)
\* the words, separated by \s+, letter case ignored, at position i of s: the
\* position after the last word, 0 if they do not occur there
WordsEnd(s, i, words) ==
    IF ~AtCI(s, i, Head(words)) THEN 0
    ELSE LET a == i + Len(Head(words))
             g == SkipWs(s, a)
         IN  IF Len(words) = 1 THEN a
             ELSE IF g = a THEN 0
             ELSE WordsEnd(s, g, Tail(words))

\* (?:factors?|criteria)\s+(?:are|is)\s+(?:listed\s+)?in\s+descending\s+order
\* \s+of\s+importance occurs in s
StatesDescendingOrder(s) ==
    \E i \in 1..Len(s) :
        \E subject \in {"factors", "factor", "criteria"} :
            \E verb \in {"are", "is"} :
                \E listed \in {<<"listed">>, <<>>} :
                    WordsEnd(s, i, <<subject, verb>> \o listed
                        \o <<"in", "descending", "order", "of", "importance">>) # 0

\* a mutant: the statement on the order of importance is looked for in the
\* window of the factor
_extract_weight_in_window(section, factor_name, full_text) ==
    LET Relative(i) ==
            IF i # 0 THEN SubSeq(section, i, RelativeAt(section, i) - 1)
            ELSE IF StatesDescendingOrder(section)
            THEN "descending order of importance"
            ELSE ""
        Degree(m) ==
            IF m[1] THEN m[2]
            ELSE Relative(MinOr({i \in 1..Len(section) : RelativeAt(section, i) # 0}, 0))
        Important(m) ==
            IF m[1] THEN m[2]
            ELSE Degree(PhraseSearch(section, <<"significantly more important",
                                                "slightly more important">>))
        Percent(i) ==
            IF i # 0 THEN SubSeq(section, i, PercentAt(section, i))
            ELSE Important(PhraseSearch(section, <<"most important", "more important",
                                                   "equally important",
                                                   "descending order">>))
    IN  Percent(MinOr({i \in 1..Len(section) : PercentAt(section, i) # 0}, 0))

\* a mutant: the weight statement that stands first in the window wins
_extract_weight_leftmost(section, factor_name, full_text) ==
    LET phrases == <<"most important", "more important", "equally important",
                     "descending order">>
        percents == {i \in 1..Len(section) : PercentAt(section, i) # 0}
        fixed == {i \in 1..Len(section) :
                     \E k \in 1..Len(phrases) : AtCI(section, i, phrases[k])}
        relative == {i \in 1..Len(section) : RelativeAt(section, i) # 0}
        First(i) ==
            IF i = 0
            THEN (IF StatesDescendingOrder(full_text)
                  THEN "descending order of importance" ELSE "")
            ELSE IF i \in percents THEN SubSeq(section, i, PercentAt(section, i))
            ELSE IF i \in fixed THEN PhraseSearch(section, phrases)[2]
            ELSE SubSeq(section, i, RelativeAt(section, i) - 1)
    IN  First(MinOr(percents \cup fixed \cup relative, 0))

\* the searches of _extract_weight in the order of the code, each one taking
\* the result of its own search (a position, 0 for no match, or a match)
_extract_weight(section, factor_name, full_text) ==
    LET Relative(i) ==
            IF i # 0 THEN SubSeq(section, i, RelativeAt(section, i) - 1)
            ELSE IF StatesDescendingOrder(full_text)
            THEN "descending order of importance"
            ELSE ""
        Degree(m) ==
            IF m[1] THEN m[2]
            ELSE Relative(MinOr({i \in 1..Len(section) : RelativeAt(section, i) # 0}, 0))
        Important(m) ==
            IF m[1] THEN m[2]
            ELSE Degree(PhraseSearch(section, <<"significantly more important",
                                                "slightly more important">>))
        Percent(i) ==
            IF i # 0 THEN SubSeq(section, i, PercentAt(section, i))
            ELSE Important(PhraseSearch(section, <<"most important", "more important",
                                                   "equally important",
                                                   "descending order">>))
    IN  Percent(MinOr({i \in 1..Len(section) : PercentAt(section, i) # 0}, 0))

\* (?:page|pg) at position i of s, letter case ignored: the position after it
UnitEnd(s, i) ==
    IF AtCI(s, i, "page") THEN i + 4 ELSE IF AtCI(s, i, "pg") THEN i + 2 ELSE 0

\* (?:limit|max|maximum) at position i of s
LimitAt(s, i) == AtCI(s, i, "limit") \/ AtCI(s, i, "max")

\* (\d+)\s*(?:page|pg)s?\s*(?:limit|max|maximum) at position i of s, as
\* <<found, group(1)>>
PagesThenLimitAt(s, i) ==
    LET d == SkipDigits(s, i)
        u == UnitEnd(s, SkipWs(s, d))
        v == IF AtCI(s, u, "s") THEN u + 1 ELSE u
    IN  IF IsDigit(CharAt(s, i)) /\ u # 0 /\ LimitAt(s, SkipWs(s, v))
        THEN <<TRUE, SubSeq(s, i, d - 1)>> ELSE <<FALSE, "">>

\* \s*(?:of\s*)?(\d+)\s*(?:page|pg)s? at position e of s, as <<found, group(1)>>
CountThenPagesAt(s, e) ==
    LET a == SkipWs(s, e)
        o == IF AtCI(s, a, "of") THEN SkipWs(s, a + 2) ELSE a
        d == SkipDigits(s, o)
    IN  IF d > o /\ UnitEnd(s, SkipWs(s, d)) # 0
        THEN <<TRUE, SubSeq(s, o, d - 1)>> ELSE <<FALSE, "">>

\* (?:limit|max|maximum)\s*(?:of\s*)?(\d+)\s*(?:page|pg)s? at position i of s
LimitThenPagesAt(s, i) ==
    LET OrMaximum(m) ==
            IF m[1] THEN m
            ELSE IF AtCI(s, i, "maximum") THEN CountThenPagesAt(s, i + 7)
            ELSE <<FALSE, "">>
    IN  IF AtCI(s, i, "limit") THEN CountThenPagesAt(s, i + 5)
        ELSE IF AtCI(s, i, "max") THEN OrMaximum(CountThenPagesAt(s, i + 3))
        ELSE <<FALSE, "">>

\* the two searches of _extract_page_limit in the order of the code, each one
\* taking the position of its leftmost match (0 for no match)
_extract_page_limit(section) ==
    LET Second(i) ==
            IF i # 0 THEN LimitThenPagesAt(section, i)[2] \o " pages" ELSE ""
        First(i) ==
            IF i # 0 THEN PagesThenLimitAt(section, i)[2] \o " pages"
            ELSE Second(MinOr({k \in 1..Len(section) :
                                  LimitThenPagesAt(section, k)[1]}, 0))
    IN  First(MinOr({i \in 1..Len(section) : PagesThenLimitAt(section, i)[1]}, 0))

methods == <<"adjectival", "color rating", "pass/fail", "pass fail",
             "acceptable/unacceptable", "go/no-go", "numerical score",
             "outstanding", "good", "acceptable", "marginal", "unacceptable">>

_extract_rating_method(section) ==
    LET lower == LowerStr(section)
        found == {k \in 1..Len(methods) : Contains(lower, methods[k])}
    IN  IF found = {} THEN "" ELSE methods[Min(found)]

\* Phase\s+(I{1,3}|[123]) at position i of s, letter case ignored, as
\* <<found, group(1)>>
PhaseAt(s, i) ==
    LET a == SkipWs(s, i + 5)
        r == SkipSet(s, a, {"I", "i"})
        e == IF r > a + 3 THEN a + 3 ELSE r
    IN  IF ~(AtCI(s, i, "phase") /\ a > i + 5) THEN <<FALSE, "">>
        ELSE IF e > a THEN <<TRUE, SubSeq(s, a, e - 1)>>
        ELSE IF CharAt(s, a) \in {"1", "2", "3"} THEN <<TRUE, Char(s, a)>>
        ELSE <<FALSE, "">>

\* a mutant: the first marker of the text before decides
_extract_phase_first(text_before) ==
    LET phases == {i \in 1..Len(text_before) : PhaseAt(text_before, i)[1]}
    IN  IF phases = {} THEN ""
        ELSE "Phase " \o PhaseAt(text_before, Min(phases))[2]

_extract_phase(text_before) ==
    LET phases == {i \in 1..Len(text_before) : PhaseAt(text_before, i)[1]}
    IN  IF phases = {} THEN ""
        ELSE "Phase " \o PhaseAt(text_before, Max(phases))[2]

\* re.search(r"evaluation\s+(?:criteria|factor)", line, re.IGNORECASE)
IsEvalMarker(line) ==
    \E i \in 1..Len(line) :
        \E word \in {"criteria", "factor"} : WordsEnd(line, i, <<"evaluation", word>>) # 0

\* [A-Za-z /\-] of the numbered pattern
NameSet == UpperSet \cup LowerSet \cup {" ", "/", "-"}

\* (?:\s*[\(\[]|[:\n]) at position e of s
NameStop(s, e) ==
    CharAt(s, e) \in {":", "\n"} \/ CharAt(s, SkipWs(s, e)) \in {"(", "["}

\* numbered.match(line) for a stripped line, the pattern being
\* (?:^|\n)\s*(\d+)\.\s+([A-Z][A-Za-z /\-]+?)(?:\s*[\(\[]|[:\n]),
\* as <<found, group(1), group(2)>>
NumberedMatch(line) ==
    LET b == SkipWs(line, 1)
        d == SkipDigits(line, b)
        g == SkipWs(line, d + 1)
        stops == {e \in (g + 2)..Len(line) :
                     AllIn(line, g + 1, e - 1, NameSet) /\ NameStop(line, e)}
    IN  IF /\ d > b /\ CharAt(line, d) = "." /\ g > d + 1
           /\ IsUpper(CharAt(line, g)) /\ stops # {}
        THEN <<TRUE, SubSeq(line, b, d - 1), SubSeq(line, g, Min(stops) - 1)>>
        ELSE <<FALSE, "", "">>

\* the record of a factor of the numbered list
FallbackFactor(document_id, solicitation_id, notice_id, m, now) ==
    [ document_id |-> document_id,
      solicitation_id |-> solicitation_id,
      notice_id |-> notice_id,
      evaluation_phase |-> "",
      factor_number |-> ParseInt(m[2]),
      factor_name |-> Strip(m[3]),
      factor_weight |-> "",
      subfactors |-> "[]",
      description |-> "",
      page_limit |-> "",
      rating_method |-> "",
      created_at |-> now ]

RECURSIVE FallbackFactors(_, _, _, _, _, _)
\* the loop over the lines of the text; in_eval is set by the first line with
\* an evaluation marker and stays set
FallbackFactors(document_id, solicitation_id, notice_id, lines, in_eval, now) ==
    IF lines = <<>> THEN <<>>
    ELSE LET seen == in_eval \/ IsEvalMarker(Head(lines))
             m == NumberedMatch(Strip(Head(lines)))
         IN  (IF seen /\ m[1]
              THEN <<FallbackFactor(document_id, solicitation_id, notice_id, m, now)>>
              ELSE <<>>)
             \o FallbackFactors(document_id, solicitation_id, notice_id,
                                Tail(lines), seen, now)

\* a mutant: every window runs 2000 characters, a later header or not
PrimaryFactor_to_cap(document_id, solicitation_id, notice_id, s, ms, k, now) ==
    LET m == ms[k]
        end == m.end + WindowCap - 1
        section == SubSeq(s, m.end, IF end > Len(s) THEN Len(s) ELSE end)
        factor_name == RStripSet(Strip(m.name), {"."})
    IN  [ document_id |-> document_id,
          solicitation_id |-> solicitation_id,
          notice_id |-> notice_id,
          evaluation_phase |-> _extract_phase(SubSeq(s, 1, m.start - 1)),
          factor_number |-> _parse_factor_number(Strip(m.raw)),
          factor_name |-> factor_name,
          factor_weight |-> _extract_weight(section, factor_name, s),
          subfactors |-> json_dumps(_extract_subfactors(section)),
          description |-> Strip(Take(section, DescriptionCap)),
          page_limit |-> _extract_page_limit(section),
          rating_method |-> _extract_rating_method(section),
          created_at |-> now ]

\* the record of the factor of the match ms[k] of the factor pattern
PrimaryFactor(document_id, solicitation_id, notice_id, s, ms, k, now) ==
    LET m == ms[k]
        end == IF k < Len(ms) THEN ms[k + 1].start - 1 ELSE m.end + WindowCap - 1
        section == SubSeq(s, m.end, IF end > Len(s) THEN Len(s) ELSE end)
        factor_name == RStripSet(Strip(m.name), {"."})
    IN  [ document_id |-> document_id,
          solicitation_id |-> solicitation_id,
          notice_id |-> notice_id,
          evaluation_phase |-> _extract_phase(SubSeq(s, 1, m.start - 1)),
          factor_number |-> _parse_factor_number(Strip(m.raw)),
          factor_name |-> factor_name,
          factor_weight |-> _extract_weight(section, factor_name, s),
          subfactors |-> json_dumps(_extract_subfactors(section)),
          description |-> Strip(Take(section, DescriptionCap)),
          page_limit |-> _extract_page_limit(section),
          rating_method |-> _extract_rating_method(section),
          created_at |-> now ]

\* a mutant: the numbered list is read whatever the factor pattern found
factors_of_mixed(document_id, solicitation_id, notice_id, s, ms, now) ==
    [k \in 1..Len(ms) |->
        PrimaryFactor(document_id, solicitation_id, notice_id, s, ms, k, now)]
    \o FallbackFactors(document_id, solicitation_id, notice_id,
                       Split(s, "\n"), FALSE, now)

\* the factors of the matches ms of the factor pattern, else those of the
\* numbered list
factors_of(document_id, solicitation_id, notice_id, s, ms, now) ==
    IF ms # <<>>
    THEN [k \in 1..Len(ms) |->
             PrimaryFactor(document_id, solicitation_id, notice_id, s, ms, k, now)]
    ELSE FallbackFactors(document_id, solicitation_id, notice_id,
                         Split(s, "\n"), FALSE, now)

\* extract_evaluation_factors; now is the reading of the clock
extract_evaluation_factors(document_id, solicitation_id, notice_id, s, now) ==
    factors_of(document_id, solicitation_id, notice_id, s, FactorMatches(s, 1), now)

-----------------------------------------------------------------------------
(* The database: database.py, and the store functions of the pipeline       *)
(* (pipeline/collect_documents.py, pipeline/import_local_docs.py).          *)
(* A table is the sequence of its rows in rowid order; <table>_seq is the   *)
(* AUTOINCREMENT counter of a table whose rowids are not its row indexes.   *)
(* None is written 0: every rowid is at least 1 and the code only tests     *)
(* identifiers for truth.                                                   *)

NoneId == 0

\* the database after ProcurementDatabase(): empty tables, and
\* sqlite3_last_insert_rowid() of the connection is 0
EmptyDb ==
    [ solicitations |-> <<>>,
      solicitations_seq |-> 0,
      opportunity_documents |-> <<>>,
      opportunity_documents_seq |-> 0,
      sow_analysis |-> <<>>,
      evaluation_criteria |-> <<>>,
      last_insert_rowid |-> 0 ]

\* SELECT id FROM solicitations WHERE notice_id = ?
get_solicitation_id(db, notice_id) ==
    LET rows == {k \in 1..Len(db.solicitations) :
                    db.solicitations[k].notice_id = notice_id}
    IN  IF rows = {} THEN NoneId ELSE db.solicitations[Min(rows)].id

\* a mutant: INSERT without OR REPLACE on a table without the unique
\* constraint
insert_solicitation_plain(db, sol_data, now) ==
    [ db |-> [db EXCEPT !.solicitations =
                            Append(@, [ id |-> db.solicitations_seq + 1,
                                        notice_id |-> sol_data.notice_id,
                                        solicitation_number |-> sol_data.solicitation_number,
                                        title |-> sol_data.title,
                                        description |-> sol_data.description,
                                        department |-> sol_data.department,
                                        type_of_notice |-> sol_data.type_of_notice,
                                        url |-> sol_data.url,
                                        data_source |-> sol_data.data_source,
                                        collected_date |-> now,
                                        last_updated |-> now ]),
                        !.solicitations_seq = db.solicitations_seq + 1,
                        !.last_insert_rowid = db.solicitations_seq + 1],
      id |-> db.solicitations_seq + 1 ]

\* ProcurementDatabase.insert_solicitation: INSERT OR REPLACE on the unique
\* notice_id, the id being AUTOINCREMENT; as [db, id], id the returned lastrowid
insert_solicitation(db, sol_data, now) ==
    LET id == db.solicitations_seq + 1
        row == [ id |-> id,
                 notice_id |-> sol_data.notice_id,
                 solicitation_number |-> sol_data.solicitation_number,
                 title |-> sol_data.title,
                 description |-> sol_data.description,
                 department |-> sol_data.department,
                 type_of_notice |-> sol_data.type_of_notice,
                 url |-> sol_data.url,
                 data_source |-> sol_data.data_source,
                 collected_date |-> now,
                 last_updated |-> now ]
        kept == SelectSeq(db.solicitations, LAMBDA r : r.notice_id # sol_data.notice_id)
    IN  [ db |-> [db EXCEPT !.solicitations = Append(kept, row),
                            !.solicitations_seq = id,
                            !.last_insert_rowid = id],
          id |-> id ]

\* store_document: INSERT OR IGNORE on the unique file_url, as [db, id]. The
\* returned id is cursor.lastrowid, which sqlite3 sets after the statement to
\* sqlite3_last_insert_rowid() of the connection: the new rowid when the row
\* went in, and for an ignored row the rowid of the connection's latest
\* successful insert into any table (0, hence None, when there was none).
\* The ignored row has taken its AUTOINCREMENT id all the same.
store_document(db, doc, now) ==
    LET id == db.opportunity_documents_seq + 1
        row == [ id |-> id,
                 solicitation_id |-> doc.solicitation_id,
                 notice_id |-> doc.notice_id,
                 filename |-> doc.filename,
                 file_url |-> doc.file_url,
                 file_type |-> doc.file_type,
                 doc_role |-> doc.doc_role,
                 raw_text |-> doc.raw_text,
                 download_status |-> doc.download_status,
                 parse_status |-> doc.parse_status,
                 error_message |-> doc.error_message,
                 created_at |-> now ]
    IN  IF \E k \in 1..Len(db.opportunity_documents) :
              db.opportunity_documents[k].file_url = doc.file_url
        THEN [ db |-> [db EXCEPT !.opportunity_documents_seq = id],
               id |-> db.last_insert_rowid ]
        ELSE [ db |-> [db EXCEPT !.opportunity_documents = Append(@, row),
                                 !.opportunity_documents_seq = id,
                                 !.last_insert_rowid = id],
               id |-> id ]

\* a document as the pipeline passes it to store_document when download and
\* parsing went well (doc.get defaults filled in)
CompleteDoc(solicitation_id, notice_id, name, file_url, file_type, doc_role, raw_text) ==
    [ solicitation_id |-> solicitation_id, notice_id |-> notice_id,
      filename |-> name, file_url |-> file_url, file_type |-> file_type,
      doc_role |-> doc_role, raw_text |-> raw_text,
      download_status |-> "complete", parse_status |-> "complete",
      error_message |-> "" ]

\* the document of the except branch of process_notice
ErrorDoc(solicitation_id, notice_id, name, file_url, file_type, message) ==
    [ solicitation_id |-> solicitation_id, notice_id |-> notice_id,
      filename |-> name, file_url |-> file_url, file_type |-> file_type,
      doc_role |-> "unknown", raw_text |-> "",
      download_status |-> "error", parse_status |-> "error",
      error_message |-> message ]

\* store_sow_analysis: INSERT INTO sow_analysis
store_sow_analysis(db, sow) ==
    [db EXCEPT !.sow_analysis = Append(@, sow),
               !.last_insert_rowid = Len(db.sow_analysis) + 1]

\* store_eval_factors: INSERT INTO evaluation_criteria, one row per factor
store_eval_factors(db, fs) ==
    [db EXCEPT !.evaluation_criteria = @ \o fs,
               !.last_insert_rowid =
                   IF fs = <<>> THEN @ ELSE Len(db.evaluation_criteria) + Len(fs)]

-----------------------------------------------------------------------------
(* The dispatch on the document role: _run_analysis of                      *)
(* pipeline/collect_documents.py and run_analysis of                        *)
(* pipeline/import_local_docs.py. Both return [db, calls]: the database     *)
(* after the call and the extractors the call invoked, in call order.       *)

\* a mutant: factor extraction for every role that has an extractor
wants_factors_any(role) == role \in {"sow", "pws", "solicitation", "evaluation_criteria"}

\* role in ("solicitation", "evaluation_criteria")
wants_factors(role) == role \in {"solicitation", "evaluation_criteria"}

\* a mutant: the SOW data of a solicitation is stored whatever it holds
has_sow_content_always(sow) == TRUE

\* json.loads(analysis["labor_categories"]) or json.loads(analysis["key_tasks"])
has_sow_content(sow) ==
    json_loads(sow.labor_categories) # <<>> \/ json_loads(sow.key_tasks) # <<>>

\* the dispatch is three if statements in a row; st is [db, calls] as the
\* statements before left it

\* if role in ("sow", "pws"): build and store
sow_step(st, doc_id, sol_id, notice_id, role, s, now) ==
    IF role \in {"sow", "pws"}
    THEN [ db |-> store_sow_analysis(st.db, build_sow_analysis(doc_id, sol_id,
                                                               notice_id, s, now)),
           calls |-> Append(st.calls, "build_sow_analysis") ]
    ELSE st

\* `if factors: store_eval_factors(db, factors)'
store_if_factors(st, fs) ==
    [ db |-> IF fs # <<>> THEN store_eval_factors(st.db, fs) ELSE st.db,
      calls |-> Append(st.calls, "extract_evaluation_factors") ]

\* a mutant: the factor extraction is called without the solicitation id
factors_step_without_solicitation(st, doc_id, sol_id, notice_id, role, s, now) ==
    IF wants_factors(role)
    THEN store_if_factors(st, extract_evaluation_factors(doc_id, NoneId, notice_id,
                                                         s, now))
    ELSE st

\* if role in ("solicitation", "evaluation_criteria"): extract, store if any
factors_step(st, doc_id, sol_id, notice_id, role, s, now) ==
    IF wants_factors(role)
    THEN store_if_factors(st, extract_evaluation_factors(doc_id, sol_id, notice_id,
                                                         s, now))
    ELSE st

\* `if json.loads(...) or json.loads(...): store_sow_analysis(db, analysis)'
store_if_content(st, sow) ==
    [ db |-> IF has_sow_content(sow) THEN store_sow_analysis(st.db, sow) ELSE st.db,
      calls |-> Append(st.calls, "build_sow_analysis") ]

\* if role == "solicitation": build, store if it holds labor categories or tasks
solicitation_step(st, doc_id, sol_id, notice_id, role, s, now) ==
    IF role = "solicitation"
    THEN store_if_content(st, build_sow_analysis(doc_id, sol_id, notice_id, s, now))
    ELSE st

_run_analysis(db, doc_id, sol_id, notice_id, role, s, now) ==
    solicitation_step(
        factors_step(
            sow_step([db |-> db, calls |-> <<>>], doc_id, sol_id, notice_id, role, s, now),
            doc_id, sol_id, notice_id, role, s, now),
        doc_id, sol_id, notice_id, role, s, now)

\* run_analysis of import_local_docs.py: the same three statements
run_analysis(db, doc_id, sol_id, notice_id, role, s, now) ==
    solicitation_step(
        factors_step(
            sow_step([db |-> db, calls |-> <<>>], doc_id, sol_id, notice_id, role, s, now),
            doc_id, sol_id, notice_id, role, s, now),
        doc_id, sol_id, notice_id, role, s, now)

-----------------------------------------------------------------------------
(* The handlers. Each returns [db, run]: the database after the handler and *)
(* the record of the run (what was classified, what store_document          *)
(* returned, whether the dispatch was called and which extractors it        *)
(* invoked).                                                                *)

Run(handler, role, doc_id, sol_id, notice_id, s, now, analysed, calls, returned) ==
    [ handler |-> handler, role |-> role, doc_id |-> doc_id, sol_id |-> sol_id,
      notice_id |-> notice_id, text |-> s, now |-> now, analysed |-> analysed,
      calls |-> calls, returned |-> returned ]

NoRun == Run("", "", NoneId, NoneId, "", "", 0, FALSE, <<>>, "None")

\* the part of s after the last sep (s itself without sep): s.rsplit(sep, 1)[-1]
AfterLast(s, sep) ==
    LET hits == Occurrences(s, sep)
    IN  IF hits = {} THEN s ELSE Drop(s, Max(hits) + 1)

\* the part of s before the first sep: s.split(sep)[0]
BeforeFirst(s, sep) ==
    LET k == Find(s, sep, 1) IN IF k = 0 THEN s ELSE SubSeq(s, 1, k - 1)

\* the file name of a resource link given as a string
link_filename(link) == BeforeFirst(AfterLast(link, "/"), "?")

\* the file type process_notice derives from the file name
link_file_type(name) ==
    LET lower_name == LowerStr(name)
    IN  IF EndsWith(lower_name, ".pdf") THEN "pdf"
        ELSE IF EndsWith(lower_name, ".docx") THEN "docx"
        ELSE IF EndsWith(lower_name, ".doc") THEN "doc"
        ELSE IF Contains(lower_name, ".") THEN AfterLast(lower_name, ".")
        ELSE "unknown"

\* process_notice, step 1: the description of the notice, html being what
\* get_description_html returned and s the text extract_text made of it
\* the handler's result after the dispatch returned done = [db, calls]
Analysed(handler, done, role, doc_id, sol_id, notice_id, s, now, returned) ==
    [ db |-> done.db,
      run |-> Run(handler, role, doc_id, sol_id, notice_id, s, now, TRUE,
                  done.calls, returned) ]

\* `if doc_id: _run_analysis(db, doc_id, sol_id, notice_id, role, text)' of
\* process_notice, stored being what store_document returned as [db, id]
analyse_if_stored(handler, stored, sol_id, notice_id, role, s, now) ==
    IF stored.id # NoneId
    THEN Analysed(handler,
                  _run_analysis(stored.db, stored.id, sol_id, notice_id, role, s, now),
                  role, stored.id, sol_id, notice_id, s, now, "None")
    ELSE [ db |-> stored.db,
           run |-> Run(handler, role, stored.id, sol_id, notice_id, s, now,
                       FALSE, <<>>, "None") ]

process_description(db, notice_id, s, now) ==
    LET Classified(sol_id, role) ==
            analyse_if_stored("process_description",
                store_document(db, CompleteDoc(sol_id, notice_id, "description.html",
                                   "noticedesc:" \o notice_id, "html", role, s), now),
                sol_id, notice_id, role, s, now)
    IN  Classified(get_solicitation_id(db, notice_id),
                   classify_document("description.html", s))

\* process_notice, step 2, one turn of the loop over the resource links: the
\* link is downloaded and parsed to the text s
process_link(db, notice_id, link, s, now) ==
    LET Classified(sol_id, name, role) ==
            analyse_if_stored("process_link",
                store_document(db, CompleteDoc(sol_id, notice_id, name, link,
                                   link_file_type(name), role, s), now),
                sol_id, notice_id, role, s, now)
        Named(sol_id, name) == Classified(sol_id, name, classify_document(name, s))
    IN  Named(get_solicitation_id(db, notice_id), link_filename(link))

\* the same turn when the download or the parsing raises: the except branch
process_link_error(db, notice_id, link, message, now) ==
    LET Named(sol_id, name) ==
            [ db |-> store_document(db, ErrorDoc(sol_id, notice_id, name, link,
                                        link_file_type(name), message), now).db,
              run |-> Run("process_link_error", "", NoneId, sol_id, notice_id,
                          "", now, FALSE, <<>>, "None") ]
    IN  Named(get_solicitation_id(db, notice_id), link_filename(link))

\* AGENCY_TEXT_SIGNALS, in the order of the dictionary
AGENCY_TEXT_SIGNALS == <<
    <<"FHFA", {"federal housing finance agency", "fhfa"}>>,
    <<"SEC", {"securities and exchange commission", "sec.gov", " the sec's ",
              " sec regional office", "50310225r", "50310224r", "50310226r"}>>,
    <<"OCC", {"office of the comptroller of the currency",
              "comptroller of the currency", "occ.gov"}>>,
    <<"CFPB", {"consumer financial protection bureau", "cfpb"}>>,
    <<"FCA", {"farm credit administration", "fca.gov"}>> >>

\* infer_agency: the patterns of AGENCY_PATTERNS on the file name, in list
\* order, then the text signals on the first 5000 characters
infer_agency(name, s) ==
    LET lower_text == LowerStr(Take(s, PreviewLen))
        hits == {k \in 1..Len(AGENCY_TEXT_SIGNALS) :
                    \E signal \in AGENCY_TEXT_SIGNALS[k][2] : Contains(lower_text, signal)}
    IN  IF AtCI(name, 1, "fhf") /\ CharAt(name, 4) \in WsSet \cup {"-"} THEN "FHFA"
        ELSE IF AnyInCI(name, {"fhfa"}) THEN "FHFA"
        ELSE IF HasWordCI(name, "sec") THEN "SEC"
        ELSE IF HasWordCI(name, "occ") THEN "OCC"
        ELSE IF HasWordCI(name, "cfpb") THEN "CFPB"
        ELSE IF HasWordCI(name, "fca") THEN "FCA"
        ELSE IF AnyInCI(name, {"2031jw"}) THEN "OCC"
        ELSE IF AnyInCI(name, {"503101", "503102"}) THEN "SEC"
        ELSE IF hits # {} THEN AGENCY_TEXT_SIGNALS[Min(hits)][1]
        ELSE "UNKNOWN"

\* the position of the dot that starts the suffix of a file name, 0 if the
\* name has no suffix: Path(name).suffix
SuffixDot(name) ==
    LET dots == Occurrences(name, ".")
    IN  IF dots = {} \/ Max(dots) = 1 \/ Max(dots) = Len(name) THEN 0 ELSE Max(dots)

\* Path(name).stem
PathStem(name) ==
    IF SuffixDot(name) = 0 THEN name ELSE SubSeq(name, 1, SuffixDot(name) - 1)

\* s.replace(old, new) for a one-character old
Replace(s, old, new) == Join(Split(s, old), new)

RECURSIVE CollapseDashes(_)
\* re.sub(r"-{2,}", "-", s)
CollapseDashes(s) ==
    LET k == Find(s, "--", 1)
    IN  IF k = 0 THEN s
        ELSE CollapseDashes(SubSeq(s, 1, k) \o Drop(s, SkipSet(s, k, {"-"})))

\* slug[:60] of generate_notice_id, len(text.strip()) < 50 and text[:2000]
\* of import_solicitation
SlugCap == 60
MinTextLen == 50
SolDescriptionCap == 2000

\* slug[:60].rstrip("-") of a slug longer than 60 characters
cut_slug(slug) ==
    IF Len(slug) > SlugCap THEN RStripSet(SubSeq(slug, 1, SlugCap), {"-"}) ELSE slug

generate_notice_id(name, agency) ==
    "LOCAL-" \o agency \o "-"
    \o cut_slug(RStripSet(LStripSet(CollapseDashes(
            Replace(Replace(PathStem(name), "+", "-"), " ", "-")), {"-"}), {"-"}))

\* the file type import_solicitation derives from the suffix
import_file_type(name) ==
    LET ext == IF SuffixDot(name) = 0 THEN ""
               ELSE LStripSet(LowerStr(Drop(name, SuffixDot(name))), {"."})
    IN  IF ext \in {"pdf", "docx"} THEN ext ELSE "unknown"

\* import_solicitation(db, filepath, dry_run = False): valid_pdf is
\* is_valid_pdf(file_bytes) and s the text extract_text made of the file
import_solicitation(db, name, valid_pdf, s, now) ==
    LET file_url == "local://" \o name
        Skipped ==
            [ db |-> db,
              run |-> Run("import_solicitation", "", NoneId, NoneId, "", s, now,
                          FALSE, <<>>, "False") ]
        \* `if not doc_id:' the document may exist already
        Stored(doc_role, notice_id, sol_row_id, stored) ==
            IF stored.id = NoneId
            THEN [ db |-> stored.db,
                   run |-> Run("import_solicitation", doc_role, stored.id, sol_row_id,
                               notice_id, s, now, FALSE, <<>>,
                               IF \E k \in 1..Len(stored.db.opportunity_documents) :
                                      stored.db.opportunity_documents[k].file_url = file_url
                               THEN "True" ELSE "False") ]
            ELSE Analysed("import_solicitation",
                          run_analysis(stored.db, stored.id, sol_row_id, notice_id,
                                       doc_role, s, now),
                          doc_role, stored.id, sol_row_id, notice_id, s, now, "True")
        WithRow(doc_role, notice_id, inserted_db, sol_row_id) ==
            Stored(doc_role, notice_id, sol_row_id,
                   store_document(inserted_db,
                       CompleteDoc(sol_row_id, notice_id, name, file_url,
                                   import_file_type(name), doc_role, s), now))
        \* `if not sol_row_id:' look the row up
        Inserted(doc_role, notice_id, inserted) ==
            WithRow(doc_role, notice_id, inserted.db,
                    IF inserted.id # NoneId THEN inserted.id
                    ELSE get_solicitation_id(inserted.db, notice_id))
        Titled(doc_role, agency, notice_id, title) ==
            Inserted(doc_role, notice_id,
                insert_solicitation(db,
                    [ notice_id |-> notice_id, solicitation_number |-> title,
                      title |-> title, description |-> Take(s, SolDescriptionCap),
                      department |-> agency, type_of_notice |-> doc_role,
                      data_source |-> "local_import", url |-> file_url ], now))
        Identified(doc_role, agency) ==
            Titled(doc_role, agency, generate_notice_id(name, agency),
                   Replace(PathStem(name), "+", " "))
        \* the file name decides when the text leaves the role unknown
        Classified(classified) ==
            Identified(IF classified = "unknown"
                          /\ AnyInCI(name, {"rfq", "rfp", "solicitation"})
                       THEN "solicitation" ELSE classified,
                       infer_agency(name, s))
    IN  IF EndsWith(LowerStr(name), ".pdf") /\ ~valid_pdf THEN Skipped
        ELSE IF s = "" \/ Len(Strip(s)) < MinTextLen THEN Skipped
        ELSE Classified(classify_document(name, s))

-----------------------------------------------------------------------------
(* The parts of the state a run does not use *)

classify_vars == <<filename, label, relabel>>
extraction_vars == <<token, cats, analysis, factors, reanalysis, refactors>>
pipeline_vars == <<database, clock, run, request>>

\* the identifiers the extraction runs pass to the extractors
DocumentId == 7
SolicitationId == 3
NoticeId == "N1"

ClassifyIdle == filename = "" /\ label = "" /\ relabel = ""

\* the analysis of a run that has built none: every field empty
NoAnalysis == sow_record(NoneId, NoneId, "", "", "", "", <<>>, <<>>, <<>>, <<>>, 0)

ExtractionIdle ==
    /\ token = ""
    /\ cats = <<>>
    /\ analysis = NoAnalysis
    /\ factors = <<>>
    /\ reanalysis = NoAnalysis
    /\ refactors = <<>>

\* no API request was made: no attempt, no response, no wait, no result
NoRequest ==
    [ max_retries |-> 0, attempt |-> 0, responses |-> <<>>, waits |-> <<>>,
      result |-> "", body |-> "" ]

PipelineIdle == database = EmptyDb /\ clock = 0 /\ run = NoRun /\ request = NoRequest

-----------------------------------------------------------------------------
(* Inputs of the classification runs *)

MaxNameParts == 2
MaxFrags == 3

NameParts == {"Pws_", "sow", "RFP_"}

FileNames == {Concat(p) : p \in SeqsUpTo(NameParts, MaxNameParts)}

ClassifyFrags == {
    "RFP ", "Offerors", "Scope of work: the contractor shall ", "clin",
    "best value", "Adjectival rating scale" }

ClassifyTexts == {Concat(p) : p \in SeqsUpTo(ClassifyFrags, MaxFrags)}

-----------------------------------------------------------------------------
(* The classification run: classify_document is called on a document, and  *)
(* called again on the same document (a re-import of the same file).       *)

InitClassify ==
    /\ pc = "classify"
    /\ filename \in FileNames
    /\ text \in ClassifyTexts
    /\ label = ""
    /\ relabel = ""
    /\ ExtractionIdle
    /\ PipelineIdle

Classify ==
    /\ pc = "classify"
    /\ label' = classify_document(filename, text)
    /\ pc' = "classified"
    /\ UNCHANGED <<filename, text, relabel, extraction_vars, pipeline_vars>>

Reclassify ==
    /\ pc = "classified"
    /\ relabel' = classify_document(filename, text)
    /\ pc' = "reclassified"
    /\ UNCHANGED <<filename, text, label, extraction_vars, pipeline_vars>>

NextClassify == Classify \/ Reclassify

SpecClassify == InitClassify /\ [][NextClassify]_vars

-----------------------------------------------------------------------------
(* The labor category run: _extract_labor_categories on a text made of      *)
(* lines.                                                                   *)

MaxLaborLines == 2

LaborLines == {
    "Senior Program Manager",
    "Break Room Cleaning",
    "Program Manager DC 20006",
    "Provide Support Staff",
    "Junior Analyst",
    "Program Manager, Level 2 team",
    "Key personnel include: Junior Analyst, Senior Program Manager.",
    "Labor categories include: Provide Help Desk, Senior Analyst.",
    "Key personnel shall include: Program Manager DC 20006, FAR 52 Compliance Officer, Senior Analyst" }

LaborTexts == {Join(p, "\n") : p \in SeqsUpTo(LaborLines, MaxLaborLines)}

InitLabor ==
    /\ pc = "extract"
    /\ text \in LaborTexts
    /\ ClassifyIdle
    /\ ExtractionIdle
    /\ PipelineIdle

ExtractLabor ==
    /\ pc = "extract"
    /\ cats' = _extract_labor_categories(text)
    /\ pc' = "extracted"
    /\ UNCHANGED <<text, classify_vars, token, analysis, factors, reanalysis, refactors,
                 pipeline_vars>>

NextLabor == ExtractLabor

SpecLabor == InitLabor /\ [][NextLabor]_vars

-----------------------------------------------------------------------------
(* The SOW analysis run: build_sow_analysis on a text made of blocks of     *)
(* lines.                                                                   *)

MaxSowBlocks == 3

SowBlocks == {
    "Purpose\nSupport the agency mission.\n",
    "pop 2024 2025\n",
    "Senior Program Manager\n",
    "Deliverables\nMonthly status report\n",
    "FAR 52.212-4 applies\n",
    "Place of Performance: Washington DC\n",
    "Scope\nThe contractor shall provide IT support services.\nSenior Systems Engineer\n" }

SowTexts == {Concat(p) : p \in SeqsUpTo(SowBlocks, MaxSowBlocks)}

InitSow ==
    /\ pc = "build"
    /\ text \in SowTexts
    /\ ClassifyIdle
    /\ ExtractionIdle
    /\ PipelineIdle

BuildSow ==
    /\ pc = "build"
    /\ analysis' = build_sow_analysis(DocumentId, SolicitationId, NoticeId, text, clock)
    /\ clock' = clock + 1
    /\ pc' = "built"
    /\ UNCHANGED <<text, classify_vars, token, cats, factors, reanalysis, refactors,
                 database, run, request>>

NextSow == BuildSow

SpecSow == InitSow /\ [][NextSow]_vars

-----------------------------------------------------------------------------
(* The section run: build_sow_analysis on a text made of header lines,      *)
(* heading lines in capitals and plain lines, so that _find_section meets a *)
(* heading at every distance from the header.                               *)

MaxSectionBlocks == 3

SectionBlocks == {
    "Scope\n",
    "DELIVERABLES LIST\n",
    "2. PERIOD OF PERFORMANCE\n",
    "The contractor shall provide IT support.\n",
    "\n" }

SectionTexts == {Concat(p) : p \in SeqsUpTo(SectionBlocks, MaxSectionBlocks)}

InitSection ==
    /\ pc = "build"
    /\ text \in SectionTexts
    /\ ClassifyIdle
    /\ ExtractionIdle
    /\ PipelineIdle

SpecSection == InitSection /\ [][NextSow]_vars

-----------------------------------------------------------------------------
(* The place run: build_sow_analysis on a text of lines with and without    *)
(* the label "place of performance", with and without text after it.        *)

MaxPlaceBlocks == 3

PlaceBlocks == {
    "Place of Performance: Washington DC\n",
    "Place of Performance:\n",
    "PLACE OF PERFORMANCE : Reston VA \n",
    "Work is remote.\n",
    "\n" }

PlaceTexts == {Concat(p) : p \in SeqsUpTo(PlaceBlocks, MaxPlaceBlocks)}

InitPlace ==
    /\ pc = "build"
    /\ text \in PlaceTexts
    /\ ClassifyIdle
    /\ ExtractionIdle
    /\ PipelineIdle

SpecPlace == InitPlace /\ [][NextSow]_vars

-----------------------------------------------------------------------------
(* The evaluation factor run: extract_evaluation_factors on a text whose    *)
(* first line is the header "Factor <token>: Technical Approach".           *)

MaxFactorLines == 1

Tokens == {"2", "II", "ii", "B", "b", "I", "V", "v", "VII", "X", "12", "007",
           "IX", "A", "z"}

FactorLines == {
    "Factor 2: Price",
    "(a) Staffing plan 40%",
    "Phase II",
    "Factor C - Past Performance",
    "10 page limit, adjectival ratings" }

FactorHeader(tok) == "Factor " \o tok \o ": Technical Approach"

InitFactors ==
    /\ pc = "extract"
    /\ token \in Tokens
    /\ \E body \in SeqsUpTo(FactorLines, MaxFactorLines) :
          text = Join(<<FactorHeader(token)>> \o body, "\n")
    /\ cats = <<>>
    /\ analysis = NoAnalysis
    /\ factors = <<>>
    /\ reanalysis = NoAnalysis
    /\ refactors = <<>>
    /\ ClassifyIdle
    /\ PipelineIdle

ExtractFactors ==
    /\ pc = "extract"
    /\ factors' = extract_evaluation_factors(DocumentId, SolicitationId, NoticeId,
                                             text, clock)
    /\ clock' = clock + 1
    /\ pc' = "extracted"
    /\ UNCHANGED <<text, classify_vars, token, cats, analysis, reanalysis, refactors,
                 database, run, request>>

NextFactors == ExtractFactors

SpecFactors == InitFactors /\ [][NextFactors]_vars

-----------------------------------------------------------------------------
(* The evaluation section run: extract_evaluation_factors on a text made of *)
(* blocks of lines: factor headers with and without content, a statement    *)
(* on the order of importance, and a numbered list under a marker line.     *)

MaxEvalBlocks == 3

EvalBlocks == {
    "Factor 1: Technical Approach\n(a) Demonstrated experience\n(b) Key personnel\n30% weight\n\n",
    "Factor 2: Price\n",
    "Factors are listed in descending order of importance.\n",
    "Evaluation criteria\n",
    "1. Technical Approach\n",
    "2. Past Performance (20 pages max)\n",
    "Adjectival ratings, limit of 10 pages\n" }

EvalTexts == {Concat(p) : p \in SeqsUpTo(EvalBlocks, MaxEvalBlocks)}

InitEval ==
    /\ pc = "extract"
    /\ text \in EvalTexts
    /\ ClassifyIdle
    /\ ExtractionIdle
    /\ PipelineIdle

SpecEval == InitEval /\ [][NextFactors]_vars

-----------------------------------------------------------------------------
(* The weight run: extract_evaluation_factors on one factor whose window    *)
(* holds weight statements of the several kinds in every order, with or     *)
(* without a statement on the order of importance before the header.        *)

MaxWeightBlocks == 2

WeightBlocks == {
    "This is the Most Important factor.\n",
    "It counts 30 % of the score.\n",
    "Equal weight as price.\n",
    "Significantly more important than price.\n",
    "Of lesser importance than price, in descending order.\n",
    "Offerors shall submit a plan.\n" }

OrderStatements == {"", "Criteria are in descending order of importance.\n"}

WeightTexts ==
    {before \o "Factor 1: Technical Approach\n" \o Concat(p) :
        before \in OrderStatements, p \in SeqsUpTo(WeightBlocks, MaxWeightBlocks)}

InitWeight ==
    /\ pc = "extract"
    /\ text \in WeightTexts
    /\ ClassifyIdle
    /\ ExtractionIdle
    /\ PipelineIdle

SpecWeight == InitWeight /\ [][NextFactors]_vars

-----------------------------------------------------------------------------
(* The phase run: extract_evaluation_factors on a text of phase markers and *)
(* factor headers in every order.                                           *)

MaxPhaseBlocks == 3

PhaseBlocks == {
    "Phase I\n",
    "phase 2 evaluation\n",
    "Phase IV and later\n",
    "Factor 1: Technical Approach\n",
    "Factor 2: Price\n" }

PhaseTexts == {Concat(p) : p \in SeqsUpTo(PhaseBlocks, MaxPhaseBlocks)}

InitPhase ==
    /\ pc = "extract"
    /\ text \in PhaseTexts
    /\ ClassifyIdle
    /\ ExtractionIdle
    /\ PipelineIdle

SpecPhase == InitPhase /\ [][NextFactors]_vars

-----------------------------------------------------------------------------
(* The rating run: extract_evaluation_factors on one factor whose window    *)
(* holds lines that name rating schemes.                                    *)

MaxRatingBlocks == 2

RatingBlocks == {
    "Adjectival\n", "Color Rating\n", "Pass/Fail\n", "Pass Fail\n",
    "Acceptable/Unacceptable\n", "Go/No-Go\n", "Numerical Score\n",
    "Outstanding\n", "Good\n", "Acceptable\n", "Marginal\n", "Unacceptable\n",
    "Offerors shall submit a plan.\n" }

RatingTexts ==
    {"Factor 1: Technical Approach\n" \o Concat(p) :
        p \in SeqsUpTo(RatingBlocks, MaxRatingBlocks)}

InitRating ==
    /\ pc = "extract"
    /\ text \in RatingTexts
    /\ ClassifyIdle
    /\ ExtractionIdle
    /\ PipelineIdle

SpecRating == InitRating /\ [][NextFactors]_vars

-----------------------------------------------------------------------------
(* The repeated run: classify_document, build_sow_analysis and              *)
(* extract_evaluation_factors on one document, then both extractors once    *)
(* more with the same identifiers and the same text.  Each extractor call   *)
(* reads the clock (datetime.now()); between two calls time may pass.       *)

MaxRerunBlocks == 2

RerunBlocks == {
    "Scope\nThe contractor shall provide IT support services.\n",
    "Deliverables\nMonthly status report\n",
    "pop 2024 2025\n",
    "Senior Program Manager\n",
    "Factor 1: Technical Approach\n(a) Key personnel\n30% weight\n",
    "Factor 2: Price\n",
    "Evaluation criteria\n",
    "2. Past Performance (20 pages max)\n" }

RerunTexts == {Concat(p) : p \in SeqsUpTo(RerunBlocks, MaxRerunBlocks)}

RerunNames == {"", "PWS_a.pdf", "sow_b.docx"}

\* the time that passes between two readings of the clock
Elapsed == {0, 1}

InitRerun ==
    /\ pc = "analyse"
    /\ filename \in RerunNames
    /\ text \in RerunTexts
    /\ label = ""
    /\ relabel = ""
    /\ ExtractionIdle
    /\ PipelineIdle

Analyse ==
    /\ pc = "analyse"
    /\ label' = classify_document(filename, text)
    /\ analysis' = build_sow_analysis(DocumentId, SolicitationId, NoticeId, text, clock)
    /\ factors' = extract_evaluation_factors(DocumentId, SolicitationId, NoticeId,
                                             text, clock)
    /\ \E d \in Elapsed : clock' = clock + d
    /\ pc' = "analysed"
    /\ UNCHANGED <<filename, text, relabel, token, cats, reanalysis, refactors,
                   database, run, request>>

Reanalyse ==
    /\ pc = "analysed"
    /\ reanalysis' = build_sow_analysis(DocumentId, SolicitationId, NoticeId, text,
                                        clock)
    /\ refactors' = extract_evaluation_factors(DocumentId, SolicitationId, NoticeId,
                                               text, clock)
    /\ pc' = "reanalysed"
    /\ UNCHANGED <<filename, text, label, relabel, token, cats, analysis, factors,
                   pipeline_vars>>

NextRerun == Analyse \/ Reanalyse

SpecRerun == InitRerun /\ [][NextRerun]_vars

-----------------------------------------------------------------------------
(* The long document run: the first calls on a text made of long blocks: a  *)
(* scope section of numbered tasks, a deliverables section and a factor     *)
(* header, each at and above the size the extractors cut their result to.   *)

MaxCapBlocks == 2

\* the lines a long block holds above the cap of its list
Extra == 2

RECURSIVE LinesUpTo(_, _, _)
\* the lines prefix 1 suffix, prefix 2 suffix, ... up to n, each with its
\* line break
LinesUpTo(prefix, suffix, n) ==
    IF n = 0 THEN ""
    ELSE LinesUpTo(prefix, suffix, n - 1)
         \o prefix \o ToString(n) \o suffix \o "\n"

TaskBlock(n) == "Scope\n" \o LinesUpTo("Provide help desk support for task area ", "", n)

DeliverableBlock(n) ==
    "Deliverables\nn/a\n" \o LinesUpTo("- Report ", " monthly", n)

CapBlocks == {
    TaskBlock(KeyTasksCap),
    TaskBlock(KeyTasksCap + Extra),
    DeliverableBlock(DeliverablesCap),
    DeliverableBlock(DeliverablesCap + Extra) }

\* the blocks alone, and the blocks under a factor header
CapTexts ==
    {head \o Concat(p) : head \in {"", "Factor 1: Technical Approach\n"},
                         p \in SeqsUpTo(CapBlocks, MaxCapBlocks)}

InitCaps ==
    /\ pc = "analyse"
    /\ filename = ""
    /\ text \in CapTexts
    /\ label = ""
    /\ relabel = ""
    /\ ExtractionIdle
    /\ PipelineIdle

NextCaps == Analyse

SpecCaps == InitCaps /\ [][NextCaps]_vars

-----------------------------------------------------------------------------
(* The pipeline: the collector (process_notice) and the local import        *)
(* (import_solicitation) work on one database, document after document.     *)

MaxRuns == 2

NoticeIds == {"N1"}

Links == {"https://sam.gov/f/pws_a.pdf", "https://sam.gov/f/att_c.pdf"}

ImportNames == {"sow_b.docx", "RFP_d.pdf"}

PipeTexts == {
    "Hello",
    "Offerors shall submit proposals.\nKey personnel include: Senior Analyst, Junior Analyst.\n",
    "Offerors shall submit proposals.\nPeriod of performance: 2024 to 2029 FAR 52.212-4 applies\n",
    "Factor 1: Technical Approach\nFactor II - Price\nAdjectival rating scale, best value, evaluation criteria",
    "Evaluation criteria\n2. Past Performance (20 pages max)\n3. Price: lowest\n" }

ErrorMessages == {"HTTP 404"}

Idle == pc = "" /\ text = "" /\ ClassifyIdle /\ ExtractionIdle

InitPipeline ==
    /\ database = EmptyDb
    /\ clock = 0
    /\ run = NoRun
    /\ request = NoRequest
    /\ Idle

Done(result) ==
    /\ database' = result.db
    /\ run' = result.run
    /\ clock' = clock + 1
    /\ UNCHANGED <<pc, text, classify_vars, extraction_vars, request>>

ProcessDescription ==
    /\ clock < MaxRuns
    /\ \E notice_id \in NoticeIds, s \in PipeTexts :
          Done(process_description(database, notice_id, s, clock))

ProcessLink ==
    /\ clock < MaxRuns
    /\ \E notice_id \in NoticeIds, link \in Links, s \in PipeTexts :
          Done(process_link(database, notice_id, link, s, clock))

ProcessLinkError ==
    /\ clock < MaxRuns
    /\ \E notice_id \in NoticeIds, link \in Links, message \in ErrorMessages :
          Done(process_link_error(database, notice_id, link, message, clock))

ImportSolicitation ==
    /\ clock < MaxRuns
    /\ \E name \in ImportNames, valid_pdf \in BOOLEAN, s \in PipeTexts :
          Done(import_solicitation(database, name, valid_pdf, s, clock))

NextPipeline ==
    \/ ProcessDescription
    \/ ProcessLink
    \/ ProcessLinkError
    \/ ImportSolicitation

SpecPipeline == InitPipeline /\ [][NextPipeline]_vars

-----------------------------------------------------------------------------
(* The solicitations table: insert_solicitation called again and again on   *)
(* one database, with new and with known notice ids.                        *)

MaxInserts == 3

SolNoticeIds == {"NOTICE-001", "NOTICE-002", "NOTICE-003"}

Titles == {"IT Support Services", "Updated Title"}

\* a record with a notice_id and a title, as test_insert_duplicate_notice_id
\* passes it: the fields it lacks are None (written ""), data_source has its
\* default
SolData(notice_id, title) ==
    [ notice_id |-> notice_id, solicitation_number |-> "", title |-> title,
      description |-> "", department |-> "", type_of_notice |-> "", url |-> "",
      data_source |-> "SAM.gov API" ]

InsertSolicitation ==
    /\ clock < MaxInserts
    /\ \E notice_id \in SolNoticeIds, title \in Titles :
          database' = insert_solicitation(database, SolData(notice_id, title), clock).db
    /\ clock' = clock + 1
    /\ UNCHANGED <<pc, text, classify_vars, extraction_vars, run, request>>

NextSolicitations == InsertSolicitation

SpecSolicitations == InitPipeline /\ [][NextSolicitations]_vars

-----------------------------------------------------------------------------
(* The API client: SAMApiClient._request_with_retry of pipeline/sam_api.py. *)
(* Each call of session.get is one step; the server's answer is an input.   *)

\* the greatest max_retries a caller passes (the default is 5)
MaxRetries == 5

\* what session.get can come back with: an HTTP status, or 0 when the call
\* itself raises (timeout, connection error)
Statuses == {200, 404, 429, 500, 0}

Bodies == {"{}", "{\"opportunitiesData\": []}"}

\* a mutant: the wait grows by 10 seconds with every attempt
wait_of_linear(attempt) == (attempt + 1) * 10

\* 2 ** attempt * 10
wait_of(attempt) == 2 ^ attempt * 10

\* resp.raise_for_status() returns: the status is below 400
status_ok(status) == status # 0 /\ status < 400

InitRetry ==
    /\ pc = "request"
    /\ \E max_retries \in 0..MaxRetries :
          request = [NoRequest EXCEPT !.max_retries = max_retries]
    /\ text = ""
    /\ ClassifyIdle
    /\ ExtractionIdle
    /\ database = EmptyDb /\ clock = 0 /\ run = NoRun

\* the function returns resp.json()
Returned(status, body) ==
    [request EXCEPT !.responses = Append(@, status), !.result = "returned",
                    !.body = body]

\* session.get or raise_for_status raises, and the exception leaves the function
Raised(status) ==
    [request EXCEPT !.responses = Append(@, status), !.result = "raised"]

\* one turn of `for attempt in range(max_retries)'
LoopRequest ==
    /\ pc = "request"
    /\ request.attempt < request.max_retries
    /\ \E status \in Statuses, body \in Bodies :
          IF status = 429
          THEN /\ request' = [request EXCEPT !.responses = Append(@, status),
                                             !.waits = Append(@, wait_of(request.attempt)),
                                             !.attempt = @ + 1]
               /\ pc' = pc
          ELSE /\ request' = IF status_ok(status) THEN Returned(status, body)
                             ELSE Raised(status)
               /\ pc' = "done"
    /\ UNCHANGED <<text, classify_vars, extraction_vars, database, clock, run>>

\* the request after the loop
FinalRequest ==
    /\ pc = "request"
    /\ request.attempt = request.max_retries
    /\ \E status \in Statuses, body \in Bodies :
          request' = IF status_ok(status) THEN Returned(status, body)
                     ELSE Raised(status)
    /\ pc' = "done"
    /\ UNCHANGED <<text, classify_vars, extraction_vars, database, clock, run>>

NextRetry == LoopRequest \/ FinalRequest

\* session.get has a timeout and time.sleep returns: every turn comes to pass
SpecRetry == InitRetry /\ [][NextRetry]_vars /\ WF_vars(NextRetry)

-----------------------------------------------------------------------------
(* Properties of classification *)

Classified == pc \in {"classified", "reclassified"}

HasPws == Contains(LowerStr(filename), "pws")
HasSow == Contains(LowerStr(filename), "sow")
HasRfp == Contains(LowerStr(filename), "rfp")

\* The decision table of the specification: <<condition, label>> rows, read
\* top to bottom, the first row whose condition is true gives the label.
DecisionTable(sow, eval, sol) == <<
    <<sol >= 3,                "solicitation">>,
    <<sol >= 1 /\ eval >= 2,   "solicitation">>,
    <<eval >= 3 /\ eval > sow, "evaluation_criteria">>,
    <<sow >= 3 /\ sol = 0,     "sow">>,
    <<sol >= 1,                "solicitation">>,
    <<TRUE,                    "unknown">> >>

FirstTrue(table) ==
    table[CHOOSE r \in 1..Len(table) :
              table[r][1] /\ \A q \in 1..(r - 1) : ~table[q][1]][2]

TableLabel(t) ==
    LET preview == LowerStr(Take(t, PreviewLen))
    IN  FirstTrue(DecisionTable(sow_score(preview), eval_score(preview),
                                sol_score(preview)))

\* C1: classify_document is total and deterministic: every call returns one
\* of the five labels, and a second call with the same file name and text
\* returns the label of the first.
C1_ClassifyTotalDeterministic ==
    /\ Classified => label \in Labels
    /\ pc = "reclassified" => relabel \in Labels /\ relabel = label

\* C1 witness: a document classified twice, by its text and not by its name.
C1_Witness ==
    pc = "reclassified" /\ ~HasPws /\ ~HasSow /\ label = "evaluation_criteria"

\* C2: when no file name hint applies, the label is the one the decision
\* table gives for the three scores of the text.
C2_DecisionTable ==
    Classified /\ ~HasPws /\ ~(HasSow /\ ~HasRfp) => label = TableLabel(text)

\* C2 witness: evaluation score 3 that does not exceed the SOW score, no
\* solicitation signal: the fourth row decides.
C2_Witness ==
    /\ Classified /\ ~HasPws /\ ~HasSow
    /\ eval_score(LowerStr(text)) = 3 /\ sow_score(LowerStr(text)) = 3
    /\ sol_score(LowerStr(text)) = 0
    /\ label = "sow"

\* C3: a file name containing "pws" in any letter case gives pws, for every
\* text and whatever else the file name contains.
C3_PwsDominates ==
    Classified /\ HasPws => label = "pws"

\* C3 witness: the file name holds "pws", "sow" and no "rfp", and the text
\* alone would make the document a solicitation.
C3_Witness ==
    /\ Classified /\ HasPws /\ HasSow /\ ~HasRfp
    /\ TableLabel(text) = "solicitation" /\ label = "pws"

\* C4: a file name containing "sow" and neither "rfp" nor "pws" gives sow for
\* every text; with "sow" and "rfp" (and no "pws") the hint is not taken and
\* the label is the decision table's.
C4_SowShortcut ==
    /\ Classified /\ HasSow /\ ~HasRfp /\ ~HasPws => label = "sow"
    /\ Classified /\ HasSow /\ HasRfp /\ ~HasPws => label = TableLabel(text)

\* C4 witness: "sow" and "rfp" in the file name, empty text: the document
\* falls through to the scores and is unknown.
C4_Witness ==
    Classified /\ HasSow /\ HasRfp /\ ~HasPws /\ text = "" /\ label = "unknown"

-----------------------------------------------------------------------------
(* Properties of the dispatch on the document role *)

\* the step of a handler that called the dispatch (_run_analysis or
\* run_analysis) on the document run'.doc_id
Dispatched == run'.analysed

\* the SOWAnalysis the dispatch of the step built from the text of the document
BuiltSow ==
    build_sow_analysis(run'.doc_id, run'.sol_id, run'.notice_id, run'.text, run'.now)

SowStored == database'.sow_analysis = Append(database.sow_analysis, BuiltSow)
SowUntouched == database'.sow_analysis = database.sow_analysis
FactorsUntouched == database'.evaluation_criteria = database.evaluation_criteria

C5_Step ==
    Dispatched =>
        /\ run'.role \in {"sow", "pws"} =>
              /\ run'.calls = <<"build_sow_analysis">>
              /\ SowStored
              /\ FactorsUntouched
        /\ run'.role = "evaluation_criteria" =>
              /\ run'.calls = <<"extract_evaluation_factors">>
              /\ SowUntouched
        /\ run'.role = "unknown" =>
              /\ run'.calls = <<>>
              /\ SowUntouched
              /\ FactorsUntouched

\* C5: the role decides which extractors the dispatch invokes: for sow and
\* pws one SOWAnalysis is built and stored whatever it holds and no factor
\* extraction runs; for evaluation_criteria only the factor extraction runs
\* and no SOWAnalysis is stored; for unknown no extractor runs and neither
\* table gets a row.
C5_RoleDispatch == [][C5_Step]_vars

\* C5 witness: a pws document whose text holds factor headers and no labor
\* category or task: its SOWAnalysis is stored all the same, and no factor is.
C5_Witness ==
    /\ run.analysed /\ run.role = "pws"
    /\ Contains(run.text, "Factor 1:")
    /\ run.calls = <<"build_sow_analysis">>
    /\ Len(database.sow_analysis) = 1
    /\ database.sow_analysis[1].document_id = run.doc_id
    /\ database.sow_analysis[1].labor_categories = "[]"
    /\ database.sow_analysis[1].key_tasks = "[]"
    /\ database.evaluation_criteria = <<>>

\* the SOWAnalysis sow is in the table after the step exactly when it holds a
\* labor category or a task
StoredIffContent(sow) ==
    IF json_loads(sow.labor_categories) # <<>> \/ json_loads(sow.key_tasks) # <<>>
    THEN database'.sow_analysis = Append(database.sow_analysis, sow)
    ELSE SowUntouched

C6_Step ==
    Dispatched /\ run'.role = "solicitation" =>
        /\ run'.calls = <<"extract_evaluation_factors", "build_sow_analysis">>
        /\ StoredIffContent(BuiltSow)

\* C6: for a solicitation the factor extraction runs and the SOW extraction
\* is attempted after it; the SOWAnalysis is stored exactly when its
\* labor_categories or its key_tasks hold an entry, whatever its other fields
\* hold.
C6_SolicitationSow == [][C6_Step]_vars

\* C6 witness: a solicitation whose analysis holds a period of performance
\* and compliance requirements but no labor category and no task: SOW
\* extraction was attempted and nothing was stored.
C6_Witness ==
    /\ run.analysed /\ run.role = "solicitation"
    /\ run.calls = <<"extract_evaluation_factors", "build_sow_analysis">>
    /\ _extract_pop(run.text) # ""
    /\ _extract_compliance(run.text) # <<>>
    /\ _extract_labor_categories(run.text) = <<>>
    /\ _extract_key_tasks(run.text) = <<>>
    /\ database.sow_analysis = <<>>

-----------------------------------------------------------------------------
(* Properties of the SOW analysis *)

\* the fields of the analysis the score counts, each with whether it is
\* non-empty (the lists are stored as JSON text)
ScoredFields == {
    <<"scope_summary", analysis.scope_summary # "">>,
    <<"period_of_performance", analysis.period_of_performance # "">>,
    <<"labor_categories", json_loads(analysis.labor_categories) # <<>> >>,
    <<"deliverables", json_loads(analysis.deliverables) # <<>> >>,
    <<"key_tasks", json_loads(analysis.key_tasks) # <<>> >> }

NonEmptyFields == {f \in ScoredFields : f[2]}

\* C7: confidence_score is k/5, k the number of non-empty fields among
\* scope_summary, period_of_performance, labor_categories, deliverables and
\* key_tasks (here in hundredths: 20 for each such field), so it is one of
\* 0, 0.2, 0.4, 0.6, 0.8, 1.0 and place_of_performance and compliance_reqs
\* do not count.
C7_ConfidenceScore ==
    pc = "built" =>
        /\ 5 * analysis.confidence_score = 100 * Cardinality(NonEmptyFields)
        /\ analysis.confidence_score \in {0, 20, 40, 60, 80, 100}

\* C7 witness: of the five fields only the period of performance is filled,
\* place of performance and compliance requirements are filled too: 0.2.
C7_Witness ==
    /\ pc = "built"
    /\ NonEmptyFields = {<<"period_of_performance", TRUE>>}
    /\ analysis.place_of_performance # ""
    /\ json_loads(analysis.compliance_reqs) # <<>>
    /\ analysis.confidence_score = 20

-----------------------------------------------------------------------------
(* Properties of the labor categories *)

TaskVerbs == {"provide", "inspect", "deliver", "install", "perform", "conduct",
              "ensure", "maintain", "review", "prepare"}

\* an entry the noise filter is there to keep out: it holds a state and ZIP
\* code or a FAR clause citation, or it starts with a task verb
NoiseEntry(entry) ==
    \/ HasStateZip(entry)
    \/ HasWordNumber(entry, "far")
    \/ PrefixEndsCI(entry, TaskVerbs) # {}

\* C8: no entry of the extracted labor categories holds a ZIP code or a FAR
\* clause citation or starts with a task verb, whichever source it came from.
C8_NoNoiseEntries ==
    pc = "extracted" => \A k \in 1..Len(cats) : ~NoiseEntry(cats[k])

\* the line entries followed by the inline entries
Merged == line_categories(text) \o inline_categories(text)

\* the position of the first appearance of a value in the merged sequence
FirstIn(merged, value) == Min({k \in 1..Len(merged) : merged[k] = value})

\* C9: the labor categories are the line entries followed by the inline
\* entries with the duplicates removed: no value twice, every merged value
\* present, in the order of first appearance in the merged sequence.
C9_MergeDedupe ==
    pc = "extracted" =>
        /\ \A i, j \in 1..Len(cats) : i # j => cats[i] # cats[j]
        /\ {cats[k] : k \in 1..Len(cats)} = {Merged[k] : k \in 1..Len(Merged)}
        /\ \A i, j \in 1..Len(cats) :
              i < j => FirstIn(Merged, cats[i]) < FirstIn(Merged, cats[j])

\* C9 witness: both sources give entries, the inline sentence repeats a line
\* entry and adds one of its own, which comes after the line entries.
C9_Witness ==
    /\ pc = "extracted"
    /\ line_categories(text) # <<>>
    /\ inline_categories(text) # <<>>
    /\ Len(cats) < Len(Merged)
    /\ Len(cats) > Len(line_categories(text))
    /\ cats[1] = line_categories(text)[1]

-----------------------------------------------------------------------------
(* Properties of the evaluation factors *)

\* the value of a string of decimal digits
DecimalValue(s) ==
    LET Place(i) == DigitVal(Char(s, i)) * 10 ^ (Len(s) - i)
        Sum[i \in 0..Len(s)] == IF i = 0 THEN 0 ELSE Sum[i - 1] + Place(i)
    IN  Sum[Len(s)]

RomanTable == { <<"I", 1>>, <<"II", 2>>, <<"III", 3>>, <<"IV", 4>>, <<"V", 5>>,
                <<"VI", 6>>, <<"VII", 7>> }

IsDigits(tok) == tok # "" /\ \A i \in 1..Len(tok) : IsDigit(Char(tok, i))
IsRoman(tok) == \E r \in RomanTable : r[1] = UpperStr(tok)
IsLetter(tok) == Len(tok) = 1 /\ IsAlpha(tok)

\* the factor extracted from the header line of the text
HeaderFactor == factors[1]

\* C10: the number of a factor header: a token of digits is that integer, a
\* roman numeral I..VII (in either letter case) is its value 1..7, and any
\* other single letter is its position in the alphabet; "Factor II: X" and
\* "Factor 2: X" both give 2.
C10_FactorNumber ==
    pc = "extracted" =>
        /\ Len(factors) >= 1
        /\ IsDigits(token) => HeaderFactor.factor_number = DecimalValue(token)
        /\ IsRoman(token) =>
              <<UpperStr(token), HeaderFactor.factor_number>> \in RomanTable
        /\ IsLetter(token) /\ ~IsRoman(token) =>
              /\ HeaderFactor.factor_number \in 1..Len(UpperAlpha)
              /\ Char(UpperAlpha, HeaderFactor.factor_number) = UpperStr(token)
        /\ token \in {"II", "2"} => HeaderFactor.factor_number = 2

\* C10 witness: the header "Factor II: Technical Approach" gave factor 2.
C10_Witness ==
    /\ pc = "extracted"
    /\ token = "II"
    /\ text = FactorHeader("II")
    /\ HeaderFactor.factor_name = "Technical Approach"
    /\ HeaderFactor.factor_number = 2

-----------------------------------------------------------------------------
(* Properties of the factor windows *)

\* the header matches of the primary strategy, in text order
Headers == FactorMatches(text, 1)

\* the primary strategy made the factors: the text has a factor header
Primary == pc = "extracted" /\ Headers # <<>>

\* the first and the last position of the window of the k-th header: from the
\* end of the header match to the start of the next header match, else the 2000
\* characters after the match (as far as the text goes)
WindowStart(k) == Headers[k].end

WindowEnd(k) ==
    IF k < Len(Headers) THEN Headers[k + 1].start - 1
    ELSE IF Headers[k].end + 1999 > Len(text) THEN Len(text)
    ELSE Headers[k].end + 1999

Window(k) == SubSeq(text, WindowStart(k), WindowEnd(k))

\* the statement that the factors are in descending order of importance lies
\* in the document and the window itself has no weight of its own
TakesDocumentOrder(k) ==
    /\ _extract_weight(Window(k), factors[k].factor_name, "") = ""
    /\ StatesDescendingOrder(text)

\* what the window alone gives for the k-th factor
FromWindow(k) ==
    /\ json_loads(factors[k].subfactors) = _extract_subfactors(Window(k))
    /\ factors[k].page_limit = _extract_page_limit(Window(k))
    /\ factors[k].rating_method = _extract_rating_method(Window(k))
    /\ \A j \in 1..Len(json_loads(factors[k].subfactors)) :
          Contains(Window(k), json_loads(factors[k].subfactors)[j])
    /\ factors[k].rating_method # "" =>
          Contains(LowerStr(Window(k)), factors[k].rating_method)

WindowsDisjoint ==
    /\ Len(factors) = Len(Headers)
    /\ \A j, k \in 1..Len(Headers) : j < k => WindowEnd(j) < WindowStart(k)

\* C11: each factor of the primary strategy has the window from the end of
\* its header match to the start of the next header match, or the 2000
\* characters after its match; the windows are pairwise disjoint; subfactors,
\* page limit and rating method come from the window alone, and so does the
\* weight unless the window has none and the document-wide statement on the
\* descending order of importance supplies it.
C11_FactorWindows ==
    Primary =>
        /\ WindowsDisjoint
        /\ \A k \in 1..Len(factors) :
              /\ FromWindow(k)
              /\ IF TakesDocumentOrder(k)
                 THEN factors[k].factor_weight = "descending order of importance"
                 ELSE /\ factors[k].factor_weight
                           = _extract_weight(Window(k), factors[k].factor_name, "")
                      /\ Contains(Window(k), factors[k].factor_weight)

\* C11 as stated: the weight of a factor, like its subfactors, page limit and
\* rating method, comes only from its own window.
C11_WeightFromWindowOnly ==
    Primary =>
        /\ WindowsDisjoint
        /\ \A k \in 1..Len(factors) :
              /\ FromWindow(k)
              /\ factors[k].factor_weight
                     = _extract_weight(Window(k), factors[k].factor_name, "")
              /\ Contains(Window(k), factors[k].factor_weight)

\* C11 witness: the example of the specification: factor 1 has two
\* subfactors and the weight "30%" from its window, factor 2 has nothing.
C11_Witness ==
    /\ Primary
    /\ Len(factors) = 2
    /\ Window(1) = "(a) Demonstrated experience\n(b) Key personnel\n30% weight\n\n"
    /\ json_loads(factors[1].subfactors) = <<"Demonstrated experience", "Key personnel">>
    /\ factors[1].factor_weight = "30%"
    /\ factors[2].factor_name = "Price"
    /\ json_loads(factors[2].subfactors) = <<>>
    /\ factors[2].factor_weight = ""

-----------------------------------------------------------------------------
(* Properties of the factor weight *)

ImportancePhrases == {
    "most important", "more important", "equally important", "descending order",
    "significantly more important", "slightly more important" }

\* the window holds no percentage, no importance phrase and no
\* greater/lesser/equal weight or importance phrase
NoOwnWeight(window) ==
    /\ \A i \in 1..Len(window) : PercentAt(window, i) = 0
    /\ ~AnyInCI(window, ImportancePhrases)
    /\ \A i \in 1..Len(window) : RelativeAt(window, i) = 0

\* C12: a factor whose own window holds no weight has the weight "descending
\* order of importance" when the document states anywhere that the factors
\* are in descending order of importance, and an empty weight otherwise.
C12_DocumentWideWeight ==
    Primary =>
        \A k \in 1..Len(factors) :
            NoOwnWeight(Window(k)) =>
                factors[k].factor_weight =
                    IF StatesDescendingOrder(text)
                    THEN "descending order of importance" ELSE ""

\* C12 witness: the statement stands before the first header, outside every
\* window, and both factors after it take their weight from it.
C12_Witness ==
    /\ Primary
    /\ Len(factors) = 2
    /\ StatesDescendingOrder(SubSeq(text, 1, Headers[1].start - 1))
    /\ \A k \in 1..2 :
          /\ NoOwnWeight(Window(k))
          /\ ~StatesDescendingOrder(Window(k))
          /\ factors[k].factor_weight = "descending order of importance"

-----------------------------------------------------------------------------
(* Properties of the numbered-list strategy *)

\* the numbered-list strategy made the factors: the text has no factor header
Fallback == pc = "extracted" /\ Headers = <<>>

\* a factor with nothing but its number and name
BareFactor(f) ==
    /\ f.evaluation_phase = ""
    /\ f.factor_weight = ""
    /\ f.description = ""
    /\ f.page_limit = ""
    /\ f.rating_method = ""
    /\ json_loads(f.subfactors) = <<>>

\* the k-th factor is the one of the k-th factor header
OfHeader(k) ==
    /\ factors[k].factor_name = RStripSet(Strip(Headers[k].name), {"."})
    /\ factors[k].description = Strip(Take(Window(k), DescriptionCap))

\* C13: the numbered-list strategy runs only when the factor pattern found
\* nothing: with a factor header in the text the factors are exactly those of
\* the headers, without one every factor has nothing but number and name.
C13_FallbackOnlyWhenNoPrimary ==
    /\ Primary =>
          /\ Len(factors) = Len(Headers)
          /\ \A k \in 1..Len(factors) : OfHeader(k)
    /\ Fallback => \A k \in 1..Len(factors) : BareFactor(factors[k])

\* C13 witness: the numbered line "2. Past Performance (20 pages max)" under
\* the marker line gives a factor without page limit.
C13_Witness ==
    /\ Fallback
    /\ Len(factors) = 1
    /\ factors[1].factor_number = 2
    /\ factors[1].factor_name = "Past Performance"
    /\ Contains(text, "20 pages max")
    /\ BareFactor(factors[1])


\* the lines of the text
TextLines == Split(text, "\n")

\* the first line with "evaluation criteria" or "evaluation factor", 0 if none
FirstMarker == MinOr({k \in 1..Len(TextLines) : IsEvalMarker(TextLines[k])}, 0)

\* a line of the form "<number>. <Capitalized phrase>": the position of the
\* phrase in the stripped line, 0 if the line has another form
PhraseStart(line) ==
    LET d == SkipDigits(line, 1)
        g == SkipWs(line, d + 1)
    IN  IF /\ d > 1 /\ CharAt(line, d) = "." /\ g > d + 1
           /\ IsUpper(CharAt(line, g)) /\ CharAt(line, g + 1) \in NameSet
        THEN g ELSE 0

\* the lines after the first marker line that have the form, in line order
NumberedLines ==
    SelectSeq([k \in 1..Len(TextLines) |-> <<k, Strip(TextLines[k])>>],
              LAMBDA l : FirstMarker # 0 /\ l[1] > FirstMarker /\ PhraseStart(l[2]) # 0)

\* C14: in the numbered-list strategy no line before the first marker line
\* gives a factor, and every line after it of the form "<number>. <Capitalized
\* phrase>" gives a factor with that number and that name, in line order.
C14_EveryNumberedLine ==
    Fallback =>
        /\ Len(factors) = Len(NumberedLines)
        /\ \A k \in 1..Len(factors) :
              LET line == NumberedLines[k][2]
              IN  /\ factors[k].factor_number
                         = ParseInt(SubSeq(line, 1, SkipDigits(line, 1) - 1))
                  /\ At(line, PhraseStart(line), factors[k].factor_name)


-----------------------------------------------------------------------------
\* C15: running build_sow_analysis and extract_evaluation_factors twice with
\* identical identifiers and identical text yields identical output records,
\* field for field: the output depends on nothing but the arguments.
Reanalysed == pc = "reanalysed"

C15_IdenticalRecords ==
    Reanalysed => /\ reanalysis = analysis
                  /\ refactors = factors


-----------------------------------------------------------------------------
(* Properties of the identifiers *)

\* the rows the step added to a table, given the table before and after
Added(before, after) == SubSeq(after, Len(before) + 1, Len(after))

\* the record carries the identifiers the handler passed to the dispatch
CarriesTriple(r) ==
    /\ r.document_id = run'.doc_id
    /\ r.solicitation_id = run'.sol_id
    /\ r.notice_id = run'.notice_id

\* the rows a step of the dispatch added carry the identifiers of the call
\* and are the records the extractors return for them
AddedCarryTriple(sows, fs) ==
    /\ \A k \in 1..Len(sows) : CarriesTriple(sows[k])
    /\ \A k \in 1..Len(fs) : CarriesTriple(fs[k])
    /\ sows # <<>> =>
          sows = <<build_sow_analysis(run'.doc_id, run'.sol_id, run'.notice_id,
                                      run'.text, run'.now)>>
    /\ fs # <<>> =>
          fs = extract_evaluation_factors(run'.doc_id, run'.sol_id, run'.notice_id,
                                          run'.text, run'.now)

C16_Step ==
    Dispatched =>
        /\ Len(database'.sow_analysis) >= Len(database.sow_analysis)
        /\ Len(database'.evaluation_criteria) >= Len(database.evaluation_criteria)
        /\ AddedCarryTriple(Added(database.sow_analysis, database'.sow_analysis),
                            Added(database.evaluation_criteria,
                                  database'.evaluation_criteria))

\* C16: every SOWAnalysis and every EvaluationFactor record, primary or
\* fallback, carries the document_id, solicitation_id and notice_id the
\* caller supplied; the dispatch passes one triple to both extractors and
\* stores the factor records as the extractor returned them.
C16_IdentifiersCarried == [][C16_Step]_vars

\* C16 witness: an import stored fallback factors under the solicitation row
\* it had inserted, and an earlier run stored a SOWAnalysis.
C16_Witness ==
    /\ run.analysed /\ run.sol_id # NoneId
    /\ FactorMatches(run.text, 1) = <<>>
    /\ database.sow_analysis # <<>>
    /\ Len(database.evaluation_criteria) = 2
    /\ \A k \in 1..2 :
          /\ database.evaluation_criteria[k].document_id = run.doc_id
          /\ database.evaluation_criteria[k].solicitation_id = run.sol_id
          /\ database.evaluation_criteria[k].notice_id = run.notice_id


-----------------------------------------------------------------------------
(* Properties of the empty text *)

\* the document in hand has the empty text and went through the three calls
AnalysedEmpty == pc \in {"analysed", "reanalysed"} /\ text = ""

\* the analysis holds nothing: no summary, no period or place of performance,
\* empty lists, and a confidence of 0
EmptyAnalysis(sow) ==
    /\ sow.scope_summary = ""
    /\ sow.period_of_performance = ""
    /\ sow.place_of_performance = ""
    /\ json_loads(sow.key_tasks) = <<>>
    /\ json_loads(sow.labor_categories) = <<>>
    /\ json_loads(sow.deliverables) = <<>>
    /\ json_loads(sow.compliance_reqs) = <<>>
    /\ sow.confidence_score = 0

\* the role the file name alone decides, "unknown" when it decides none
RoleOfName ==
    IF HasPws THEN "pws" ELSE IF HasSow /\ ~HasRfp THEN "sow" ELSE "unknown"

\* C17: on the empty text every function returns a value: build_sow_analysis
\* an analysis with empty scope_summary, period_of_performance and
\* place_of_performance, empty key_tasks, labor_categories, deliverables and
\* compliance_reqs and a confidence_score of 0, extract_evaluation_factors
\* no factor, and classify_document the role the file name decides, which is
\* unknown when the name holds neither "pws" nor "sow" without "rfp".
C17_EmptyText ==
    AnalysedEmpty => /\ EmptyAnalysis(analysis)
                     /\ factors = <<>>
                     /\ label = RoleOfName

\* C17 as stated: on the empty text classify_document yields unknown whatever
\* the file name is.
C17_EmptyTextUnknown ==
    AnalysedEmpty => /\ EmptyAnalysis(analysis)
                     /\ factors = <<>>
                     /\ label = "unknown"

\* C17 witness: the empty text under a file name without a hint: an empty
\* analysis, no factor, and the role unknown.
C17_Witness ==
    /\ AnalysedEmpty /\ filename = ""
    /\ EmptyAnalysis(analysis) /\ analysis.document_id = DocumentId
    /\ factors = <<>>
    /\ label = "unknown"


-----------------------------------------------------------------------------
(* Properties of the section search *)

\* the candidate headers build_sow_analysis searches the scope section under
ScopeHeaders ==
    <<"scope", "scope of work", "introduction", "background and scope", "purpose",
      "objective">>

\* the positions of the text where the header stands as a header line
HeaderStarts(header) ==
    {h \in 1..(Len(text) - Len(header) + 1) :
        /\ AtCI(text, h, header)
        /\ HeaderPrefixOk(text, h)
        /\ HeaderSuffixEnd(text, h + Len(header)) # 0}

\* the candidates the text holds a header line of, as indexes of the list
MatchedCandidates == {k \in 1..Len(ScopeHeaders) : HeaderStarts(ScopeHeaders[k]) # {}}

\* the section under the first occurrence of the header
FirstSection(header) ==
    SectionFrom(text, HeaderSuffixEnd(text, Min(HeaderStarts(header)) + Len(header)))

\* the section of the first candidate of the list among matched, "" if none
SectionOfFirst(matched) ==
    IF matched = {} THEN "" ELSE FirstSection(ScopeHeaders[Min(matched)])

\* C18: _find_section returns the section of the first candidate, in list
\* order, that has a header line anywhere in the text, also when a later
\* candidate's header stands earlier in the text, and takes that candidate's
\* first occurrence; it returns "" when no candidate has a header line.
C18_FirstCandidate ==
    pc = "built" => analysis.scope_summary = Take(SectionOfFirst(MatchedCandidates),
                                                  ScopeCap)

\* C18 witness: "Purpose" stands before "Scope" in the text and "Scope"
\* stands twice: the section is the one under the first "Scope", which runs
\* over the second.
C18_Witness ==
    /\ pc = "built"
    /\ HeaderStarts("purpose") # {}
    /\ Cardinality(HeaderStarts("scope")) = 2
    /\ Min(HeaderStarts("purpose")) < Min(HeaderStarts("scope"))
    /\ analysis.scope_summary = FirstSection("scope")
    /\ Contains(analysis.scope_summary, "Scope")
    /\ ~Contains(analysis.scope_summary, "Support the agency mission.")

\* C18, no match: a text without any header line of a candidate has an empty
\* scope summary.
C18_NoMatchWitness ==
    /\ pc = "built" /\ text # "" /\ MatchedCandidates = {}
    /\ analysis.scope_summary = ""


-----------------------------------------------------------------------------
(* Properties of the size caps *)

\* the candidate headers of _extract_key_tasks and of _extract_deliverables
TaskHeaders ==
    <<"scope of work", "scope", "tasks", "task areas", "requirements",
      "work requirements">>

DeliverableHeaders == <<"deliverables", "deliverable", "contract deliverables">>

\* kept is the first entries of all, cap of them when all holds more
FirstOf(kept, all, cap) ==
    /\ Len(kept) <= cap
    /\ Len(kept) = IF Len(all) > cap THEN cap ELSE Len(all)
    /\ kept = SubSeq(all, 1, Len(kept))

\* the analysis keeps to the caps and retains the first entries of the text
SowWithinCaps(sow) ==
    /\ FirstOf(sow.scope_summary, _find_section(text, ScopeHeaders), ScopeCap)
    /\ FirstOf(json_loads(sow.key_tasks),
               SelectTasks(Split(_find_section(text, TaskHeaders), "\n")),
               KeyTasksCap)
    /\ FirstOf(json_loads(sow.deliverables),
               SelectDeliverables(Split(_find_section(text, DeliverableHeaders), "\n")),
               DeliverablesCap)
    /\ \A i \in 1..Len(json_loads(sow.deliverables)) :
          Len(json_loads(sow.deliverables)[i]) > 10

\* the description of factor k is cut from the start of its window
DescriptionWithinCap(k) ==
    /\ Len(factors[k].description) <= DescriptionCap
    /\ Headers # <<>> =>
          factors[k].description = Strip(Take(Window(k), DescriptionCap))

\* C19: for every text scope_summary holds at most 1000 characters, key_tasks
\* at most 30 entries, deliverables at most 20 entries each longer than 10
\* characters, and every factor description at most 1000 characters; what a
\* cap retains is the first entries (characters) in text order.
C19_SizeBounds ==
    pc = "analysed" => /\ SowWithinCaps(analysis)
                       /\ \A k \in 1..Len(factors) : DescriptionWithinCap(k)

\* C19 witness: a text with 32 tasks in a scope section of more than 1000
\* characters, 22 deliverables and a factor window of more than 1000
\* characters: 30 tasks, 20 deliverables, a summary of 1000 characters and a
\* description of at most 1000 are retained.
C19_Witness ==
    /\ pc = "analysed"
    /\ text = "Factor 1: Technical Approach\n" \o TaskBlock(KeyTasksCap + Extra)
                  \o DeliverableBlock(DeliverablesCap + Extra)
    /\ Len(analysis.scope_summary) = ScopeCap
    /\ Len(json_loads(analysis.key_tasks)) = KeyTasksCap
    /\ json_loads(analysis.key_tasks)[KeyTasksCap]
          = "Provide help desk support for task area 30"
    /\ Len(json_loads(analysis.deliverables)) = DeliverablesCap
    /\ json_loads(analysis.deliverables)[DeliverablesCap] = "Report 20 monthly"
    /\ Len(factors) = 1
    /\ Len(Window(1)) > DescriptionCap
    /\ Len(factors[1].description) \in (DescriptionCap - 5)..DescriptionCap


-----------------------------------------------------------------------------
(* Properties of the solicitations table *)

\* the rows of the table with the notice id
RowsOf(table, notice_id) == {k \in 1..Len(table) : table[k].notice_id = notice_id}

\* the table holds one row per notice id at most
OneRowEach(table) ==
    \A i, j \in 1..Len(table) : table[i].notice_id = table[j].notice_id => i = j

\* the rows of the table with another notice id, as a set
OtherRows(table, notice_id) ==
    {table[k] : k \in 1..Len(table) \ RowsOf(table, notice_id)}

\* what the call insert_solicitation(sol_data) has made of the table before
InsertedInto(before, after, sol_data) ==
    /\ OneRowEach(after)
    /\ Len(after) = IF RowsOf(before, sol_data.notice_id) = {}
                    THEN Len(before) + 1 ELSE Len(before)
    /\ \E k \in 1..Len(after) :
          /\ after[k].notice_id = sol_data.notice_id
          /\ after[k].title = sol_data.title
          /\ after[k].solicitation_number = sol_data.solicitation_number
          /\ after[k].description = sol_data.description
          /\ after[k].data_source = sol_data.data_source
    /\ OtherRows(after, sol_data.notice_id) = OtherRows(before, sol_data.notice_id)

C20_Step ==
    \A notice_id \in SolNoticeIds, title \in Titles :
        database' = insert_solicitation(database, SolData(notice_id, title), clock).db
        => InsertedInto(database.solicitations, database'.solicitations,
                        SolData(notice_id, title))

\* C20: after any sequence of insert_solicitation calls the solicitations
\* table holds exactly one row per distinct notice_id: a call with a notice_id
\* the table holds replaces that row, whose fields become the new record's,
\* and leaves the number of rows and the other rows unchanged; a call with a
\* new notice_id adds one row.
C20_OneRowPerNotice == [][C20_Step]_vars

\* C20 witness: three calls, the third with the notice_id of the first and
\* another title: two rows, and the row of that notice_id holds the new title.
C20_Witness ==
    /\ database.solicitations_seq = 3
    /\ Len(database.solicitations) = 2
    /\ \E k \in 1..2 :
          /\ database.solicitations[k].notice_id = "NOTICE-001"
          /\ database.solicitations[k].title = "Updated Title"
          /\ database.solicitations[k].last_updated = 2
    /\ \E k \in 1..2 :
          /\ database.solicitations[k].notice_id = "NOTICE-002"
          /\ database.solicitations[k].last_updated = 1


-----------------------------------------------------------------------------
(* Properties of the end of a section *)

\* the line resembles a heading: after optional numbering it starts with a
\* run of at least 6 capitals and blanks
IsHeadingLine(line) == HeadingAt("\n" \o line, 1)

\* C21: the body _find_section returns ends at the next heading-like line
\* after the header line: no line of the returned body is a heading line,
\* also when the heading line immediately follows the header line, and the
\* body holds at most 3000 characters.
C21_NoHeadingInBody ==
    pc = "built" =>
        /\ \A k \in 1..Len(Split(analysis.scope_summary, "\n")) :
              ~IsHeadingLine(Split(analysis.scope_summary, "\n")[k])
        /\ Len(_find_section(text, ScopeHeaders)) <= SectionCap


-----------------------------------------------------------------------------
(* Properties of the line source of the labor categories *)

\* the level qualifiers a role line may end in
LevelQualifiers == {"Level", "Sr", "Jr", "I", "II", "III", "Senior", "Junior"}

\* the line ends in a level qualifier
EndsInQualifier(line) == \E q \in LevelQualifiers : EndsWith(line, q)

\* the line has a role-name shape: a capitalized phrase of 2 to 8 words, or
\* a line of at most 60 characters ending in a level qualifier
RoleNameShape(line) ==
    \/ RoleShape(line)
    \/ Len(line) <= 60 /\ IsUpper(CharAt(line, 1)) /\ EndsInQualifier(line)

\* the line passes every condition of the line source
PassesLineFilter(line) ==
    /\ Len(line) <= 80
    /\ LowerStr(line) \notin noise
    /\ ~noise_re(line)
    /\ RoleNameShape(line)
    /\ has_role_word(line)

\* the categories the line source gave for the text
FromLines == line_categories(text)

\* C22: a candidate line enters the line-derived labor categories only if it
\* is at most 80 characters, is not in the noise-phrase set, matches no noise
\* pattern, has a role-name shape (a capitalized phrase of 2 to 8 words, or a
\* line of at most 60 characters ending in a level qualifier) and contains a
\* role keyword.
C22_LineFilter ==
    pc = "extracted" =>
        \A k \in 1..Len(FromLines) :
            /\ \E j \in 1..Len(cats) : cats[j] = FromLines[k]
            /\ PassesLineFilter(FromLines[k])


-----------------------------------------------------------------------------
(* Properties of the precedence of the weight rules *)

\* the fixed importance phrases of the second rule
FixedPhrases == {"most important", "more important", "equally important",
                 "descending order"}

\* where the rules match in the window w
PercentHits(w) == {i \in 1..Len(w) : PercentAt(w, i) # 0}
FixedHits(w) == {i \in 1..Len(w) : \E phrase \in FixedPhrases : AtCI(w, i, phrase)}
RelativeHits(w) == {i \in 1..Len(w) : RelativeAt(w, i) # 0}

\* weight is the text of w that a fixed phrase matches at position i
IsFixedMatch(weight, w, i) ==
    /\ LowerStr(weight) \in FixedPhrases
    /\ weight = SubSeq(w, i, i + Len(weight) - 1)

\* weight is what the rules give for the window w: the first rule of the
\* list that matches, at its leftmost match
WeightByPriority(weight, w) ==
    IF PercentHits(w) # {}
    THEN weight = SubSeq(w, Min(PercentHits(w)), PercentAt(w, Min(PercentHits(w))))
    ELSE IF FixedHits(w) # {}
    THEN IsFixedMatch(weight, w, Min(FixedHits(w)))
    ELSE IF RelativeHits(w) # {}
    THEN weight = SubSeq(w, Min(RelativeHits(w)),
                         RelativeAt(w, Min(RelativeHits(w))) - 1)
    ELSE weight = IF StatesDescendingOrder(text)
                  THEN "descending order of importance" ELSE ""

\* C23: the weight of a factor is chosen by the priority of the rules, not by
\* the position in the window: a percentage wins over every importance
\* phrase, a fixed importance phrase over a greater/lesser/equal phrase, and
\* the statement of the whole document counts only when no rule matches in
\* the window; the value is the text the winning rule matched.
C23_WeightPrecedence ==
    Primary => \A k \in 1..Len(factors) :
                   WeightByPriority(factors[k].factor_weight, Window(k))

\* C23 witness: the window holds "Most Important" before "30 %", and the
\* weight is "30 %".
C23_Witness ==
    /\ Primary
    /\ PercentHits(Window(1)) # {} /\ FixedHits(Window(1)) # {}
    /\ Min(FixedHits(Window(1))) < Min(PercentHits(Window(1)))
    /\ factors[1].factor_weight = "30 %"

\* C23, second rank: "lesser importance" stands before "descending order" in
\* the window, and the weight is the fixed phrase.
C23_FixedOverRelative ==
    /\ Primary
    /\ PercentHits(Window(1)) = {}
    /\ RelativeHits(Window(1)) # {} /\ FixedHits(Window(1)) # {}
    /\ Min(RelativeHits(Window(1))) < Min(FixedHits(Window(1)))
    /\ factors[1].factor_weight = "descending order"


-----------------------------------------------------------------------------
(* Properties of the evaluation phase *)

\* the text before the header match of factor k
Before(k) == SubSeq(text, 1, Headers[k].start - 1)

\* the positions of the phase markers of s
Markers(s) == {i \in 1..Len(s) : PhaseAt(s, i)[1]}

\* the phase the markers of s give: that of the last one, none without one
PhaseOf(s) ==
    IF Markers(s) = {} THEN ""
    ELSE "Phase " \o PhaseAt(s, CHOOSE i \in Markers(s) : \A j \in Markers(s) : j <= i)[2]

\* C24: the evaluation_phase of a factor of the primary strategy is decided
\* by the text before its header match alone: it is "Phase <token>" for the
\* last phase marker before the header and empty when none precedes; a marker
\* after the header has no influence.
C24_PhaseFromBefore ==
    Primary => \A k \in 1..Len(factors) :
                   factors[k].evaluation_phase = PhaseOf(Before(k))

\* C24 witness: two markers before the factor, one after it: the phase is
\* that of the second marker.
C24_Witness ==
    /\ Primary /\ Len(factors) = 1
    /\ text = "Phase I\nphase 2 evaluation\nFactor 1: Technical Approach\n"
    /\ Cardinality(Markers(Before(1))) = 2
    /\ factors[1].evaluation_phase = "Phase 2"

\* C24, marker after the header: the first factor has no phase, the second
\* has the phase of the marker between them.
C24_MarkerAfter ==
    /\ Primary /\ Len(factors) = 2
    /\ Markers(Before(1)) = {} /\ Markers(text) # {}
    /\ factors[1].evaluation_phase = ""
    /\ factors[2].evaluation_phase = "Phase I"


-----------------------------------------------------------------------------
(* Properties of the rating method *)

\* the terms of the list the window w holds, letter case ignored, by index
TermsIn(w) == {j \in 1..Len(methods) : Contains(LowerStr(w), methods[j])}

\* rating is the first term of the list that w holds, "" when it holds none
FirstTerm(rating, w) ==
    IF TermsIn(w) = {} THEN rating = ""
    ELSE /\ rating = methods[Min(TermsIn(w))]
         /\ \A j \in TermsIn(w) : Min(TermsIn(w)) <= j

\* a window that is one term of the list and nothing else is rated that term
TermReturned(rating, w) ==
    \A j \in 1..Len(methods) : LowerStr(Strip(w)) = methods[j] => rating = methods[j]

\* C25: rating_method is the first term, in the order of the list, that
\* occurs in the factor window, letter case ignored, and is empty when none
\* occurs; every term of the list is returned for some window: no term is
\* made unreachable by an earlier term, so a window that holds just the term
\* is rated that term.
C25_RatingMethod ==
    Primary => \A k \in 1..Len(factors) :
                   /\ FirstTerm(factors[k].rating_method, Window(k))
                   /\ TermReturned(factors[k].rating_method, Window(k))


-----------------------------------------------------------------------------
(* Properties of the place of performance *)

PlaceLabel == "place of performance"

\* the lines of the text that hold the label, letter case ignored
LabelLines == {k \in 1..Len(TextLines) : AnyInCI(TextLines[k], {PlaceLabel})}

\* what follows the first label of the line, without the colons and blanks
\* after the label, stripped
RestOfLine(line) ==
    Strip(LStripSet(Drop(line, Min({i \in 1..Len(line) : AtCI(line, i, PlaceLabel)})
                               + Len(PlaceLabel)),
                    WsSet \cup {":"}))

\* C26: place_of_performance is the rest of the line on which the label
\* "place of performance:" first occurs, stripped: it holds no text of a
\* following line and is empty when the line has nothing after the label;
\* without a label it is empty.
C26_RestOfLabelLine ==
    pc = "built" =>
        analysis.place_of_performance =
            IF LabelLines = {} THEN "" ELSE RestOfLine(TextLines[Min(LabelLines)])


-----------------------------------------------------------------------------
(* Properties of a document that is processed again *)

\* the step of a handler that passed a classified document to store_document
\* and left the documents table as it was: the file_url was stored already
\* and the insert was ignored
IgnoredDuplicate ==
    /\ run'.role # ""
    /\ database'.opportunity_documents = database.opportunity_documents

C27_Step ==
    IgnoredDuplicate => /\ run'.doc_id = NoneId
                        /\ ~run'.analysed
                        /\ SowUntouched
                        /\ FactorsUntouched

\* C27: processing a document whose file_url is stored already does nothing
\* for the analysis: store_document returns no document id for the ignored
\* insert, the dispatch is skipped, and sow_analysis and evaluation_criteria
\* stay as they are.
C27_DuplicateNoOp == [][C27_Step]_vars


-----------------------------------------------------------------------------
(* Properties of the API request *)

\* the function has returned or raised
Finished == request.result # ""

\* the requests made so far
Requests == Len(request.responses)

\* what holds of a request at every moment: at most max_retries + 1 requests;
\* every response but the last was a 429 and was followed by a wait of 10
\* seconds times 2 to the number of the attempt; the function returns on the
\* first response that is no 429 when its status is a success, with the body
\* of that response and without a further request, and raises when it is a
\* failure; a 429 ends the function only as the response to the request after
\* max_retries waits, and is raised
RetryInv ==
    /\ Requests <= request.max_retries + 1
    /\ Len(request.waits) <= request.max_retries
    /\ \A i \in 1..Len(request.waits) :
          /\ request.responses[i] = 429
          /\ request.waits[i] = 10 * 2 ^ (i - 1)
    /\ ~Finished => Requests = Len(request.waits)
    /\ Finished =>
          /\ Requests = Len(request.waits) + 1
          /\ request.responses[Requests] = 429 => Len(request.waits) = request.max_retries
          /\ request.result = "returned" <=> request.responses[Requests] \in {200}
          /\ request.result = "raised" <=> request.responses[Requests] \notin {200}
          /\ request.result = "returned" => request.body \in Bodies

\* C28: _request_with_retry always terminates, after at most max_retries + 1
\* requests: it tries again only after a 429, waiting 10 * 2^attempt seconds
\* (10, 20, 40, 80, 160), returns the body of the first successful response
\* that is no 429 without a further request, and after max_retries 429
\* responses in a row makes one last request whose failure is raised.
C28_RetryTerminates == []RetryInv /\ <>Finished

\* C28 witness: five 429 responses, the waits 10, 20, 40, 80, 160, and a
\* sixth request that is answered 429 and raised.
C28_Witness ==
    /\ request.max_retries = 5
    /\ request.responses = <<429, 429, 429, 429, 429, 429>>
    /\ request.waits = <<10, 20, 40, 80, 160>>
    /\ request.result = "raised"

\* C28, success: a success after two 429 responses is returned at the third
\* request.
C28_ReturnedAfterRetries ==
    /\ request.responses = <<429, 429, 200>>
    /\ request.waits = <<10, 20>>
    /\ request.result = "returned" /\ request.body \in Bodies


\* the solicitation score of the preview the classifier reads
SolicitationScore == sol_score(preview_of(text))

NoShortcut == ~HasPws /\ ~(HasSow /\ ~HasRfp)

\* C29: when no file name shortcut applies and the solicitation score is at
\* least 1, the label is solicitation whatever the SOW and evaluation scores
\* are; so evaluation_criteria, and a sow that comes from the scores, are
\* returned only when the solicitation score is 0.
C29_SolicitationSubsumes ==
    Classified /\ NoShortcut =>
        /\ SolicitationScore >= 1 => label = "solicitation"
        /\ label \in {"evaluation_criteria", "sow"} => SolicitationScore = 0

\* C29 witness: one solicitation signal next to a SOW score of 3 or more and
\* an evaluation score below 2: only the last solicitation row gives the label.
C29_Witness ==
    /\ Classified /\ NoShortcut
    /\ SolicitationScore \in 1..2
    /\ sow_score(preview_of(text)) >= 3
    /\ eval_score(preview_of(text)) < 2
    /\ label = "solicitation"

\* C29 second witness: a solicitation signal next to an evaluation score of 3
\* or more that exceeds the SOW score.
C29_EvalWitness ==
    /\ Classified /\ NoShortcut
    /\ SolicitationScore \in 1..2
    /\ eval_score(preview_of(text)) >= 3
    /\ eval_score(preview_of(text)) > sow_score(preview_of(text))
    /\ label = "solicitation"


-----------------------------------------------------------------------------
(* Properties of the factor numbers *)

\* the tokens of the roman table that are single letters: the table decides
RomanBeforeLetter ==
    /\ UpperStr(token) = "I" => HeaderFactor.factor_number = 1
    /\ UpperStr(token) = "V" => HeaderFactor.factor_number = 5

\* C30: every factor record of the primary strategy has a factor_number of at
\* least 1: each token the factor pattern accepts (digits, a run of the
\* letters I, V, X, or a single letter, in either letter case) becomes a
\* positive integer, and the roman table is tried before the letter rule
\* (I gives 1, V gives 5).
C30_FactorNumberPositive ==
    Primary =>
        /\ \A k \in 1..Len(factors) : factors[k].factor_number >= 1
        /\ RomanBeforeLetter

\* the part of C30 that holds: the roman table is tried before the letter rule
C30_RomanPrecedence == Primary => RomanBeforeLetter

\* the header "Factor IX: Technical Approach" gave a record numbered 0
C30_ZeroNumber ==
    /\ Primary
    /\ token = "IX"
    /\ HeaderFactor.factor_name = "Technical Approach"
    /\ HeaderFactor.factor_number = 0

=============================================================================
